---- MODULE Spec2Model ----
(***************************************************************************)
(* Transit-link interpretation pipeline of the Subway Tracker:             *)
(* services/transit_service.py (URL expansion and resolution, directions   *)
(* provider call, route extraction, transfer detection), its caller        *)
(* controllers/ride_controller.py, and the older variants in main.py.      *)
(*                                                                         *)
(* Python strings are modelled as sequences of one-character strings, so   *)
(* that decoding, scanning and formatting are computed, not assumed.       *)
(***************************************************************************)
EXTENDS Integers, Sequences, FiniteSets, TLC

(***************************************************************************)
(* Values: a Python value that can be an origin/destination token is a     *)
(* record of one shape: None, a str, or a tuple of two floats (a float is  *)
(* kept as its repr text).                                                 *)
(***************************************************************************)
NoneV == [kind |-> "none", s |-> <<>>, lat |-> <<>>, lng |-> <<>>]

StrV(s) == [kind |-> "str", s |-> s, lat |-> <<>>, lng |-> <<>>]

TupleV(lat, lng) == [kind |-> "coords", s |-> <<>>, lat |-> lat, lng |-> lng]

\* Python truthiness of such a value: None and "" are falsy, a 2-tuple is truthy
Truthy(v) == \/ v.kind = "coords"
             \/ v.kind = "str" /\ v.s # <<>>

Pair(o, d) == [o |-> o, d |-> d]

NonePair == Pair(NoneV, NoneV)

(***************************************************************************)
(* Character helpers                                                       *)
(***************************************************************************)
Digits == {"0", "1", "2", "3", "4", "5", "6", "7", "8", "9"}

IsDigit(c) == c \in Digits

\* urllib.parse.unquote: %XX escapes become the character they encode; the
\* escapes the model's inputs use are listed, anything else is copied.
RECURSIVE unquote(_)
unquote(s) ==
    IF s = <<>> THEN <<>>
    ELSE IF Len(s) >= 3 /\ s[1] = "%" /\ s[2] = "2" /\ s[3] = "0"
         THEN <<" ">> \o unquote(SubSeq(s, 4, Len(s)))
    ELSE IF Len(s) >= 3 /\ s[1] = "%" /\ s[2] = "2" /\ s[3] = "C"
         THEN <<",">> \o unquote(SubSeq(s, 4, Len(s)))
    ELSE <<s[1]>> \o unquote(Tail(s))

\* str.replace('+', ' ') as parse_qs applies it to a value before unquoting
RECURSIVE PlusToSpace(_)
PlusToSpace(s) ==
    IF s = <<>> THEN <<>>
    ELSE <<IF s[1] = "+" THEN " " ELSE s[1]>> \o PlusToSpace(Tail(s))

\* urllib.parse.parse_qs on the query's name=value fields: fields with a blank
\* value are dropped (keep_blank_values=False), values are plus- and
\* percent-decoded, order is kept.
RECURSIVE parse_qs(_)
parse_qs(q) ==
    IF q = <<>> THEN <<>>
    ELSE IF q[1].v = <<>> THEN parse_qs(Tail(q))
    ELSE <<[k |-> q[1].k, v |-> unquote(PlusToSpace(q[1].v))]>> \o parse_qs(Tail(q))

\* 'name' in query_params
HasKey(qp, name) == \E i \in 1..Len(qp) : qp[i].k = name

\* query_params[name][0]
FirstValue(qp, name) ==
    qp[CHOOSE i \in 1..Len(qp) :
          /\ qp[i].k = name
          /\ \A j \in 1..(i - 1) : qp[j].k # name].v

(***************************************************************************)
(* Coordinate scan: re.findall(coord_pattern, text), where coord_pattern   *)
(* is two numbers (optional minus, digits, optional dot, optional digits)  *)
(* joined by a comma, each number a group.                                 *)
(***************************************************************************)
\* first index >= i that does not hold a digit
RECURSIVE DigitsEnd(_, _)
DigitsEnd(s, i) ==
    IF i <= Len(s) /\ IsDigit(s[i]) THEN DigitsEnd(s, i + 1) ELSE i

\* end (exclusive) of the greedy match of one number at i, 0 when none
NumEnd(s, i) ==
    LET a == IF i <= Len(s) /\ s[i] = "-" THEN i + 1 ELSE i
        b == DigitsEnd(s, a)
    IN  IF b = a THEN 0
        ELSE DigitsEnd(s, IF b <= Len(s) /\ s[b] = "." THEN b + 1 ELSE b)

\* the match of the whole pattern at i: its two groups and its end, or end = 0
PairAt(s, i) ==
    LET e1 == NumEnd(s, i)
    IN  IF e1 = 0 \/ e1 > Len(s) \/ s[e1] # ","
        THEN [g1 |-> <<>>, g2 |-> <<>>, end |-> 0]
        ELSE LET e2 == NumEnd(s, e1 + 1)
             IN  IF e2 = 0 THEN [g1 |-> <<>>, g2 |-> <<>>, end |-> 0]
                 ELSE [g1 |-> SubSeq(s, i, e1 - 1),
                       g2 |-> SubSeq(s, e1 + 1, e2 - 1),
                       end |-> e2]

\* the non-overlapping matches, leftmost first
RECURSIVE FindAllFrom(_, _)
FindAllFrom(s, i) ==
    IF i > Len(s) THEN <<>>
    ELSE LET m == PairAt(s, i)
         IN  IF m.end = 0 THEN FindAllFrom(s, i + 1)
             ELSE <<m>> \o FindAllFrom(s, m.end)

FindAllCoords(s) == FindAllFrom(s, 1)

\* repr(float(text)) for a text matched as one number
RECURSIVE StripLeadingZeros(_)
StripLeadingZeros(s) ==
    IF Len(s) > 1 /\ s[1] = "0" THEN StripLeadingZeros(Tail(s)) ELSE s

RECURSIVE StripTrailingZeros(_)
StripTrailingZeros(s) ==
    IF Len(s) > 1 /\ s[Len(s)] = "0"
    THEN StripTrailingZeros(SubSeq(s, 1, Len(s) - 1)) ELSE s

FloatRepr(t) ==
    LET neg  == t # <<>> /\ t[1] = "-"
        body == IF neg THEN Tail(t) ELSE t
        ie   == DigitsEnd(body, 1)
        int  == SubSeq(body, 1, ie - 1)
        frac == IF ie <= Len(body) THEN SubSeq(body, ie + 1, Len(body)) ELSE <<>>
    IN  (IF neg THEN <<"-">> ELSE <<>>)
        \o StripLeadingZeros(int) \o <<".">>
        \o (IF frac = <<>> THEN <<"0">> ELSE StripTrailingZeros(frac))

\* extract_coords_from_fragment: always a 2-tuple, (None, None) when fewer
\* than two coordinate pairs are found
extract_coords_from_fragment(fragment) ==
    LET matches == FindAllCoords(fragment)
    IN  IF Len(matches) >= 2
        THEN Pair(TupleV(FloatRepr(matches[1].g1), FloatRepr(matches[1].g2)),
                  TupleV(FloatRepr(matches[2].g1), FloatRepr(matches[2].g2)))
        ELSE NonePair

\* extract_coords_from_data: the same scan on the percent-decoded parameter
extract_coords_from_data(data_param) ==
    LET matches == FindAllCoords(unquote(data_param))
    IN  IF Len(matches) >= 2
        THEN Pair(TupleV(FloatRepr(matches[1].g1), FloatRepr(matches[1].g2)),
                  TupleV(FloatRepr(matches[2].g1), FloatRepr(matches[2].g2)))
        ELSE NonePair

(***************************************************************************)
(* Python str methods and the regular expressions of clean_station_name,   *)
(* computed on character sequences.                                        *)
(***************************************************************************)
UpperLetters ==
    <<"A", "B", "C", "D", "E", "F", "G", "H", "I", "J", "K", "L", "M",
      "N", "O", "P", "Q", "R", "S", "T", "U", "V", "W", "X", "Y", "Z">>

LowerLetters ==
    <<"a", "b", "c", "d", "e", "f", "g", "h", "i", "j", "k", "l", "m",
      "n", "o", "p", "q", "r", "s", "t", "u", "v", "w", "x", "y", "z">>

IsUpper(c) == \E i \in 1..26 : UpperLetters[i] = c

IsLower(c) == \E i \in 1..26 : LowerLetters[i] = c

IsLetter(c) == IsUpper(c) \/ IsLower(c)

LowerChar(c) ==
    IF IsUpper(c) THEN LowerLetters[CHOOSE i \in 1..26 : UpperLetters[i] = c] ELSE c

UpperChar(c) ==
    IF IsLower(c) THEN UpperLetters[CHOOSE i \in 1..26 : LowerLetters[i] = c] ELSE c

\* \w and \s of the re module (on the ASCII text the model uses)
IsWordChar(c) == IsLetter(c) \/ IsDigit(c) \/ c = "_"

IsSpace(c) == c = " "

\* str.lower(), str.upper()
Lower(s) == [i \in 1..Len(s) |-> LowerChar(s[i])]

Upper(s) == [i \in 1..Len(s) |-> UpperChar(s[i])]

\* s.startswith(t, i-1): t occurs in s at (1-based) index i
OccursAt(s, t, i) == i + Len(t) - 1 <= Len(s) /\ SubSeq(s, i, i + Len(t) - 1) = t

\* t in s
Contains(s, t) == \E i \in 1..(Len(s) + 1) : OccursAt(s, t, i)

\* s.replace(old, new) for a non-empty old: leftmost, non-overlapping
RECURSIVE ReplaceFrom(_, _, _, _)
ReplaceFrom(s, old, new, i) ==
    IF i > Len(s) THEN <<>>
    ELSE IF OccursAt(s, old, i) THEN new \o ReplaceFrom(s, old, new, i + Len(old))
    ELSE <<s[i]>> \o ReplaceFrom(s, old, new, i + 1)

Replace(s, old, new) == ReplaceFrom(s, old, new, 1)

\* s.strip()
RECURSIVE LStrip(_)
LStrip(s) == IF s # <<>> /\ IsSpace(s[1]) THEN LStrip(Tail(s)) ELSE s

RECURSIVE RStrip(_)
RStrip(s) ==
    IF s # <<>> /\ IsSpace(s[Len(s)]) THEN RStrip(SubSeq(s, 1, Len(s) - 1)) ELSE s

Strip(s) == LStrip(RStrip(s))

\* s.split(): the maximal runs of non-whitespace, in order
RECURSIVE SplitFrom(_, _, _)
SplitFrom(s, i, cur) ==
    IF i > Len(s) THEN (IF cur = <<>> THEN <<>> ELSE <<cur>>)
    ELSE IF IsSpace(s[i])
         THEN (IF cur = <<>> THEN <<>> ELSE <<cur>>) \o SplitFrom(s, i + 1, <<>>)
    ELSE SplitFrom(s, i + 1, Append(cur, s[i]))

Split(s) == SplitFrom(s, 1, <<>>)

\* ' '.join(words)
RECURSIVE JoinSpace(_)
JoinSpace(ws) ==
    IF ws = <<>> THEN <<>>
    ELSE IF Len(ws) = 1 THEN ws[1]
    ELSE ws[1] \o <<" ">> \o JoinSpace(Tail(ws))

\* str.title(): a letter is upper-cased when the character before it is no
\* letter, lower-cased otherwise
Title(s) ==
    [i \in 1..Len(s) |->
        IF i > 1 /\ IsLetter(s[i - 1]) THEN LowerChar(s[i]) ELSE UpperChar(s[i])]

\* first index >= i that holds no word character / no whitespace
RECURSIVE WordEnd(_, _)
WordEnd(s, i) == IF i <= Len(s) /\ IsWordChar(s[i]) THEN WordEnd(s, i + 1) ELSE i

RECURSIVE SpacesEnd(_, _)
SpacesEnd(s, i) == IF i <= Len(s) /\ IsSpace(s[i]) THEN SpacesEnd(s, i + 1) ELSE i

\* \b holds between s[i-1] and s[i]
Boundary(s, i) ==
    (i > 1 /\ i - 1 <= Len(s) /\ IsWordChar(s[i - 1]))
        # (i <= Len(s) /\ IsWordChar(s[i]))

\* re.sub(r'\b(w1|w2|...)\b', '', s) for literal alternatives: the end
\* (exclusive) of the match at i, 0 when there is none; alternatives are tried
\* in the order given
RECURSIVE AltMatchEnd(_, _, _)
AltMatchEnd(s, i, alts) ==
    IF alts = <<>> THEN 0
    ELSE IF OccursAt(s, alts[1], i) /\ Boundary(s, i + Len(alts[1]))
         THEN i + Len(alts[1])
    ELSE AltMatchEnd(s, i, Tail(alts))

RECURSIVE SubWordsFrom(_, _, _)
SubWordsFrom(s, i, alts) ==
    IF i > Len(s) THEN <<>>
    ELSE LET e == IF Boundary(s, i) THEN AltMatchEnd(s, i, alts) ELSE 0
         IN  IF e > 0 THEN SubWordsFrom(s, e, alts)
             ELSE <<s[i]>> \o SubWordsFrom(s, i + 1, alts)

SubWords(s, alts) == SubWordsFrom(s, 1, alts)

StreetTerms ==
    << <<"s", "t", "r", "e", "e", "t">>, <<"s", "t">>,
       <<"a", "v", "e", "n", "u", "e">>, <<"a", "v", "e">>,
       <<"r", "o", "a", "d">>, <<"r", "d">>,
       <<"b", "o", "u", "l", "e", "v", "a", "r", "d">>, <<"b", "l", "v", "d">>,
       <<"p", "l", "a", "z", "a">>,
       <<"s", "q", "u", "a", "r", "e">>, <<"s", "q">> >>

TransitTerms ==
    << <<"s", "t", "a", "t", "i", "o", "n">>, <<"s", "u", "b", "w", "a", "y">>,
       <<"s", "t", "o", "p">> >>

LocationTerms ==
    << <<"n", "e", "w", " ", "y", "o", "r", "k">>, <<"n", "y">>,
       <<"b", "r", "o", "o", "k", "l", "y", "n">>,
       <<"m", "a", "n", "h", "a", "t", "t", "a", "n">>,
       <<"q", "u", "e", "e", "n", "s">>, <<"b", "r", "o", "n", "x">> >>

Directionals ==
    << <<"w">>, <<"e">>, <<"n">>, <<"s">>,
       <<"w", "e", "s", "t">>, <<"e", "a", "s", "t">>,
       <<"n", "o", "r", "t", "h">>, <<"s", "o", "u", "t", "h">> >>

\* the address pattern: digits, whitespace, a directional, whitespace, digits,
\* word characters.  End (exclusive) of its match at i, 0 when there is none.
RECURSIVE AddressTailEnd(_, _, _)
AddressTailEnd(s, b, alts) ==
    IF alts = <<>> THEN 0
    ELSE LET d == SpacesEnd(s, b + Len(alts[1]))
         IN  IF OccursAt(s, alts[1], b) /\ DigitsEnd(s, d) > d
             THEN WordEnd(s, DigitsEnd(s, d))
             ELSE AddressTailEnd(s, b, Tail(alts))

AddressEnd(s, i) ==
    LET a == DigitsEnd(s, i)
    IN  IF a = i THEN 0 ELSE AddressTailEnd(s, SpacesEnd(s, a), Directionals)

RECURSIVE SubAddressFrom(_, _)
SubAddressFrom(s, i) ==
    IF i > Len(s) THEN <<>>
    ELSE LET e == AddressEnd(s, i)
         IN  IF e > 0 THEN SubAddressFrom(s, e)
             ELSE <<s[i]>> \o SubAddressFrom(s, i + 1)

\* re.sub(r'[^\w\s]', ' ', s)
PunctToSpace(s) ==
    [i \in 1..Len(s) |-> IF IsWordChar(s[i]) \/ IsSpace(s[i]) THEN s[i] ELSE " "]

\* clean_station_name
clean_station_name(name) ==
    LET s1 == Lower(name)
        s2 == SubWords(s1, StreetTerms)
        s3 == SubWords(s2, TransitTerms)
        s4 == SubWords(s3, LocationTerms)
        s5 == SubAddressFrom(s4, 1)
        s6 == PunctToSpace(s5)
    IN  JoinSpace(Split(s6))

\* the set of the words of a normalized name: set(norm.split())
WordSet(s) == { Split(s)[i] : i \in 1..Len(Split(s)) }

\* similar_station_names without its test for empty names
similar_station_names_unguarded(name1, name2) ==
    LET norm1 == clean_station_name(name1)
        norm2 == clean_station_name(name2)
    IN  \/ norm1 = norm2
        \/ Cardinality(WordSet(norm1) \cap WordSet(norm2)) >= 1

\* similar_station_names of services/transit_service.py
similar_station_names(name1, name2) ==
    IF name1 = <<>> \/ name2 = <<>> THEN FALSE
    ELSE LET norm1 == clean_station_name(name1)
             norm2 == clean_station_name(name2)
         IN  \/ norm1 = norm2
             \/ Cardinality(WordSet(norm1) \cap WordSet(norm2)) >= 1

\* normalize_stop_name of services/transit_service.py
normalize_stop_name(stop_name) ==
    Replace(Replace(JoinSpace(Split(stop_name)),
                    <<" ", "S", "t", " ">>, <<" ", "S", "t", "-">>),
            <<" ", "A", "v", " ">>, <<" ", "A", "v", "e", " ">>)

(***************************************************************************)
(* find_matching_stations                                                  *)
(***************************************************************************)
\* find_matching_stations without its containment test
MatchConfidenceNoContainment(cleaned_extracted, cleaned_station) ==
    LET extracted_words == WordSet(cleaned_extracted)
        station_words == WordSet(cleaned_station)
        overlap == Cardinality(extracted_words \cap station_words)
        total_words == IF Cardinality(extracted_words) < Cardinality(station_words)
                       THEN Cardinality(extracted_words)
                       ELSE Cardinality(station_words)
    IN  IF cleaned_extracted = cleaned_station THEN 100
        ELSE IF overlap > 0 /\ (overlap * 60) \div total_words >= 30
        THEN (overlap * 60) \div total_words
        ELSE 0

\* find_matching_stations keeping every station, the unrelated ones at 30
MatchConfidenceWeakest(cleaned_extracted, cleaned_station) ==
    IF cleaned_extracted = cleaned_station THEN 100
    ELSE IF \/ Contains(cleaned_station, cleaned_extracted)
            \/ Contains(cleaned_extracted, cleaned_station)
    THEN 80
    ELSE 30

\* find_matching_stations scaling the share of common words to 100
MatchConfidenceScaled100(cleaned_extracted, cleaned_station) ==
    LET extracted_words == WordSet(cleaned_extracted)
        station_words == WordSet(cleaned_station)
        overlap == Cardinality(extracted_words \cap station_words)
        total_words == IF Cardinality(extracted_words) < Cardinality(station_words)
                       THEN Cardinality(extracted_words)
                       ELSE Cardinality(station_words)
    IN  IF cleaned_extracted = cleaned_station THEN 100
        ELSE IF \/ Contains(cleaned_station, cleaned_extracted)
                \/ Contains(cleaned_extracted, cleaned_station)
        THEN 80
        ELSE IF overlap > 0 /\ (overlap * 100) \div total_words >= 30
        THEN (overlap * 100) \div total_words
        ELSE 0

\* the confidence find_matching_stations gives a station for the cleaned raw
\* name, 0 when it appends nothing for the station.  The code's
\* int((overlap / total_words) * 60) is floor(60 * overlap / total_words): the
\* float product is exact or above the integer part for the ratios of words.
MatchConfidence(cleaned_extracted, cleaned_station) ==
    IF cleaned_extracted = cleaned_station THEN 100
    ELSE IF \/ Contains(cleaned_station, cleaned_extracted)
            \/ Contains(cleaned_extracted, cleaned_station)
    THEN 80
    ELSE LET extracted_words == WordSet(cleaned_extracted)
             station_words == WordSet(cleaned_station)
             overlap == Cardinality(extracted_words \cap station_words)
             total_words == IF Cardinality(extracted_words) < Cardinality(station_words)
                            THEN Cardinality(extracted_words)
                            ELSE Cardinality(station_words)
         IN  IF /\ extracted_words # {}
                /\ station_words # {}
                /\ overlap > 0
                /\ total_words > 0
                /\ (overlap * 60) \div total_words >= 30
             THEN (overlap * 60) \div total_words
             ELSE 0

\* matches as the loop over all_stations leaves it: (station, confidence) in
\* the order of all_stations
RECURSIVE ScoredMatches(_, _)
ScoredMatches(cleaned_extracted, stations) ==
    IF stations = <<>> THEN <<>>
    ELSE LET c == MatchConfidence(cleaned_extracted,
                                  clean_station_name(stations[1]))
         IN  (IF c = 0 THEN <<>> ELSE <<[station |-> stations[1], confidence |-> c]>>)
                 \o ScoredMatches(cleaned_extracted, Tail(stations))

\* matches.sort(key=confidence, reverse=True): the sort of Python is stable,
\* with reverse=True too: equal confidences keep the order they had
InsertByConfidence(sorted, m) ==
    LET k == Cardinality({i \in 1..Len(sorted) : sorted[i].confidence >= m.confidence})
    IN  SubSeq(sorted, 1, k) \o <<m>> \o SubSeq(sorted, k + 1, Len(sorted))

RECURSIVE SortByConfidence(_)
SortByConfidence(ms) ==
    IF ms = <<>> THEN <<>>
    ELSE InsertByConfidence(SortByConfidence(SubSeq(ms, 1, Len(ms) - 1)), ms[Len(ms)])

\* matches when the loop has ended; the empty raw name returns before it
MatchesBeforeSort(extracted, stations) ==
    IF extracted = <<>> THEN <<>>
    ELSE ScoredMatches(clean_station_name(extracted), stations)

\* the slice [:3] without the sort
FirstThreeUnsorted(ms) == SubSeq(ms, 1, IF Len(ms) < 3 THEN Len(ms) ELSE 3)

\* the sort and the slice [:3]
SortedTopThree(ms) ==
    LET sorted == SortByConfidence(ms)
    IN  SubSeq(sorted, 1, IF Len(sorted) < 3 THEN Len(sorted) ELSE 3)

find_matching_stations(extracted, stations) ==
    SortedTopThree(MatchesBeforeSort(extracted, stations))

(***************************************************************************)
(* URLs.  A URL is kept as urlparse sees it: the path already split at     *)
(* "/" (path.split("/")), the query as its name=value fields, the          *)
(* fragment as text; short records 'goo.gl' in url.                        *)
(***************************************************************************)
DIR == <<"d", "i", "r">>

\* a non-empty tuple is truthy whatever it holds: "if coords:" on a 2-tuple
TupleTruthy(p) == TRUE

\* '/dir/' in parsed.path: some path part is "dir" with a slash on both sides
DirInPath(parts) == \E i \in 2..(Len(parts) - 1) : parts[i] = DIR

\* list.index("dir"), 0 when "dir" is no element (1-based otherwise)
IndexOfDir(parts) ==
    IF \E i \in 1..Len(parts) : parts[i] = DIR
    THEN CHOOSE i \in 1..Len(parts) :
            /\ parts[i] = DIR
            /\ \A j \in 1..(i - 1) : parts[j] # DIR
    ELSE 0

\* extract_origin_destination: the two path parts after "dir", unquoted;
\* raises ValueError when "dir" is no part or a part is missing
extract_origin_destination(u) ==
    LET i == IndexOfDir(u.parts)
    IN  IF i = 0 \/ i + 2 > Len(u.parts)
        THEN [ok |-> FALSE, pair |-> NonePair]
        ELSE [ok |-> TRUE,
              pair |-> Pair(StrV(unquote(u.parts[i + 1])),
                            StrV(unquote(u.parts[i + 2])))]

\* parse_google_maps_url of services/transit_service.py
parse_google_maps_url(u) ==
    LET i  == IndexOfDir(u.parts)
        qp == parse_qs(u.query)
        fc == extract_coords_from_fragment(u.fragment)
        dc == extract_coords_from_data(FirstValue(qp, "data"))
    IN  IF DirInPath(u.parts) /\ i > 0 /\ Len(u.parts) > i + 1
        THEN Pair(StrV(unquote(u.parts[i + 1])), StrV(unquote(u.parts[i + 2])))
        ELSE IF HasKey(qp, "saddr") /\ HasKey(qp, "daddr")
        THEN Pair(StrV(FirstValue(qp, "saddr")), StrV(FirstValue(qp, "daddr")))
        ELSE IF HasKey(qp, "origin") /\ HasKey(qp, "destination")
        THEN Pair(StrV(FirstValue(qp, "origin")), StrV(FirstValue(qp, "destination")))
        ELSE IF u.fragment # <<>> /\ TupleTruthy(fc)
        THEN fc
        ELSE IF HasKey(qp, "data") /\ TupleTruthy(dc)
        THEN dc
        ELSE NonePair

\* parse_google_maps_url, the path branch on its own
PathStrategy(u) ==
    LET i == IndexOfDir(u.parts)
    IN  IF DirInPath(u.parts) /\ i > 0 /\ Len(u.parts) > i + 1
        THEN Pair(StrV(unquote(u.parts[i + 1])), StrV(unquote(u.parts[i + 2])))
        ELSE NonePair

\* parse_google_maps_url, the saddr/daddr branch on its own
SaddrDaddrStrategy(u) ==
    LET qp == parse_qs(u.query)
    IN  IF HasKey(qp, "saddr") /\ HasKey(qp, "daddr")
        THEN Pair(StrV(FirstValue(qp, "saddr")), StrV(FirstValue(qp, "daddr")))
        ELSE NonePair

\* parse_google_maps_url, the origin/destination branch on its own
OriginDestinationStrategy(u) ==
    LET qp == parse_qs(u.query)
    IN  IF HasKey(qp, "origin") /\ HasKey(qp, "destination")
        THEN Pair(StrV(FirstValue(qp, "origin")), StrV(FirstValue(qp, "destination")))
        ELSE NonePair

\* parse_google_maps_url, the fragment branch on its own
FragmentStrategy(u) ==
    IF u.fragment # <<>> THEN extract_coords_from_fragment(u.fragment) ELSE NonePair

\* parse_google_maps_url, the data branch on its own
DataStrategy(u) ==
    LET qp == parse_qs(u.query)
    IN  IF HasKey(qp, "data")
        THEN extract_coords_from_data(FirstValue(qp, "data"))
        ELSE NonePair

(***************************************************************************)
(* Input URLs: every combination of a path, a query and a fragment below.  *)
(***************************************************************************)
Url(short, parts, query, fragment) ==
    [short |-> short, parts |-> parts, query |-> query, fragment |-> fragment]

NoUrl == Url(FALSE, <<>>, <<>>, <<>>)

Field(k, v) == [k |-> k, v |-> v]

\* /m   /m/dir   /m/dir/A   /m/dir/A/   /m/dir//B   /m/dir/T+S/U%20S/
Paths ==
    { << <<>>, <<"m">> >>,
      << <<>>, <<"m">>, DIR >>,
      << <<>>, <<"m">>, DIR, <<"A">> >>,
      << <<>>, <<"m">>, DIR, <<"A">>, <<>> >>,
      << <<>>, <<"m">>, DIR, <<>>, <<"B">> >>,
      << <<>>, <<"m">>, DIR, <<"T", "+", "S">>, <<"U", "%", "2", "0", "S">>, <<>> >> }

\* (none)  saddr=4.5,-7&daddr=4,-7.25   origin=C+D&destination=E
\* saddr=C&destination=E   saddr=&daddr=E   data=1,2!3%2C4   data=1,2
Queries ==
    { <<>>,
      << Field("saddr", <<"4", ".", "5", ",", "-", "7">>),
         Field("daddr", <<"4", ",", "-", "7", ".", "2", "5">>) >>,
      << Field("origin", <<"C", "+", "D">>), Field("destination", <<"E">>) >>,
      << Field("saddr", <<"C">>), Field("destination", <<"E">>) >>,
      << Field("saddr", <<>>), Field("daddr", <<"E">>) >>,
      << Field("data", <<"1", ",", "2", "!", "3", "%", "2", "C", "4">>) >>,
      << Field("data", <<"1", ",", "2">>) >> }

\* (none)   x   5,6   5,6;07,8.50
Fragments ==
    { <<>>,
      <<"x">>,
      <<"5", ",", "6">>,
      <<"5", ",", "6", ";", "0", "7", ",", "8", ".", "5", "0">> }

LongUrls == { Url(FALSE, p, q, f) : p \in Paths, q \in Queries, f \in Fragments }

(***************************************************************************)
(* Provider data.  A step of the directions response is kept with the keys *)
(* the extractors read; Absent stands for a missing key (dict.get's        *)
(* default, or KeyError on subscription).                                  *)
(***************************************************************************)
Absent == [has |-> FALSE, s |-> <<>>]

Present(s) == [has |-> TRUE, s |-> s]

\* d.get(key, '')
GetOrEmpty(m) == IF m.has THEN m.s ELSE <<>>

Step(mode, td, line, short, name, vehicle, dep, arr) ==
    [travel_mode |-> mode,          \* step["travel_mode"]
     has_td |-> td,                 \* step has a non-empty "transit_details"
     has_line |-> line,             \* transit_details has "line"
     short_name |-> short,          \* line["short_name"]
     name |-> name,                 \* line["name"]
     vehicle |-> vehicle,           \* line["vehicle"]["type"], "" when missing
     departure |-> dep,             \* departure_stop["name"]
     arrival |-> arr]               \* arrival_stop["name"]

UNKNOWN == <<"U", "n", "k", "n", "o", "w", "n">>

SUBWAY_WORD == <<"s", "u", "b", "w", "a", "y">>

\* the steps of all legs of one route, legs in order, steps in order: the walk
\* "for leg in legs: for step in leg['steps']"
RECURSIVE StepsOfLegs(_)
StepsOfLegs(legs) ==
    IF legs = <<>> THEN <<>> ELSE legs[1].steps \o StepsOfLegs(Tail(legs))

\* the walk "for route in routes: for leg ...: for step ..."
RECURSIVE StepsOfRoutes(_)
StepsOfRoutes(rts) ==
    IF rts = <<>> THEN <<>> ELSE StepsOfLegs(rts[1].legs) \o StepsOfRoutes(Tail(rts))

\* ParsedRide of services/transit_service.py (ride_date, always today's date,
\* is left out)
ParsedRide(line, boarding_stop, departing_stop, transferred) ==
    [line |-> line, boarding_stop |-> boarding_stop,
     departing_stop |-> departing_stop, transferred |-> transferred]

\* ParsedRide of main.py
MainParsedRide(line, board_stop, depart_stop, transferred, confidence) ==
    [line |-> line, board_stop |-> board_stop, depart_stop |-> depart_stop,
     transferred |-> transferred, confidence |-> confidence]

\* get_transit_rides_from_api, the loop body: the ride dict of one step
ApiRideOfStep(st) ==
    [board_stop |-> st.departure.s,
     depart_stop |-> st.arrival.s,
     line |-> IF st.short_name.has THEN st.short_name.s
              ELSE IF st.name.has THEN st.name.s ELSE UNKNOWN]

\* a subscription of the loop body raises KeyError
ApiStepRaises(st) ==
    st.has_td /\ (~st.departure.has \/ ~st.arrival.has \/ ~st.has_line)

RECURSIVE ApiRidesOfSteps(_)
ApiRidesOfSteps(steps) ==
    IF steps = <<>> THEN <<>>
    ELSE (IF steps[1].has_td THEN <<ApiRideOfStep(steps[1])>> ELSE <<>>)
         \o ApiRidesOfSteps(Tail(steps))

\* the route get_transit_rides_from_api reads: "if routes: route = routes[0]"
ApiRoutesRead(rts) == IF rts = <<>> THEN <<>> ELSE <<rts[1]>>

\* get_transit_rides_from_api subscripting routes[0] of an empty list
get_transit_rides_from_api_unguarded(rts) ==
    LET steps == StepsOfRoutes(ApiRoutesRead(rts))
    IN  IF rts = <<>> \/ \E i \in 1..Len(steps) : ApiStepRaises(steps[i])
        THEN [raised |-> TRUE, rides |-> <<>>]
        ELSE [raised |-> FALSE, rides |-> ApiRidesOfSteps(steps)]

\* get_transit_rides_from_api on an OK response: the rides of the steps of
\* the route read, or KeyError on the first malformed transit step
get_transit_rides_from_api(rts) ==
    LET steps == StepsOfRoutes(ApiRoutesRead(rts))
    IN  IF \E i \in 1..Len(steps) : ApiStepRaises(steps[i])
        THEN [raised |-> TRUE, rides |-> <<>>]
        ELSE [raised |-> FALSE, rides |-> ApiRidesOfSteps(steps)]

\* ConvertApiRides skipping a ride equal to the one before it
ConvertApiRidesDedup(api_rides) ==
    LET kept == SelectSeq([i \in 1..Len(api_rides) |-> [i |-> i, r |-> api_rides[i]]],
                          LAMBDA e : e.i = 1 \/ api_rides[e.i - 1] # e.r)
    IN  [i \in 1..Len(kept) |->
            ParsedRide(kept[i].r.line, kept[i].r.board_stop, kept[i].r.depart_stop, FALSE)]

\* extract_transit_info_with_new_api, step 4: the ParsedRide of each api ride
ConvertApiRides(api_rides) ==
    [i \in 1..Len(api_rides) |->
        ParsedRide(api_rides[i].line, api_rides[i].board_stop,
                   api_rides[i].depart_stop, FALSE)]

\* process_api_routes of services/transit_service.py: line name and stop names
\* of one step, and whether the step gives a ride
SvcLineName(st) ==
    IF GetOrEmpty(st.short_name) # <<>> THEN GetOrEmpty(st.short_name)
    ELSE GetOrEmpty(st.name)

SvcStepQualifies(st) ==
    /\ st.travel_mode = "TRANSIT"
    /\ SvcLineName(st) # <<>>
    /\ GetOrEmpty(st.departure) # <<>>
    /\ GetOrEmpty(st.arrival) # <<>>

RECURSIVE SvcRidesOfSteps(_)
SvcRidesOfSteps(steps) ==
    IF steps = <<>> THEN <<>>
    ELSE (IF SvcStepQualifies(steps[1])
          THEN <<ParsedRide(SvcLineName(steps[1]),
                            normalize_stop_name(GetOrEmpty(steps[1].departure)),
                            normalize_stop_name(GetOrEmpty(steps[1].arrival)),
                            FALSE)>>
          ELSE <<>>)
         \o SvcRidesOfSteps(Tail(steps))

\* the routes process_api_routes reads: "for route_idx, route in enumerate(routes)"
SvcRoutesRead(rts) == rts

\* process_api_routes marking every ride it builds as a transfer
process_api_routes_transferred(rts) ==
    LET rs == SvcRidesOfSteps(StepsOfRoutes(SvcRoutesRead(rts)))
    IN  [i \in 1..Len(rs) |-> [rs[i] EXCEPT !.transferred = TRUE]]

process_api_routes(rts) == SvcRidesOfSteps(StepsOfRoutes(SvcRoutesRead(rts)))

\* detect_transfers_in_rides inverting the flag of a ride whose stop is similar
\* to the next boarding stop
detect_transfers_in_rides_toggle(rs) ==
    [i \in 1..Len(rs) |->
        IF i < Len(rs)
           /\ similar_station_names(rs[i].departing_stop, rs[i + 1].boarding_stop)
        THEN [rs[i] EXCEPT !.transferred = ~rs[i].transferred]
        ELSE rs[i]]

\* detect_transfers_in_rides leaving every ride as it came
detect_transfers_in_rides_skipped(rs) == rs

\* detect_transfers_in_rides flagging the ride a similar pair of stops leads to
detect_transfers_in_rides_next(rs) ==
    [i \in 1..Len(rs) |->
        IF i > 1
           /\ similar_station_names(rs[i - 1].departing_stop, rs[i].boarding_stop)
        THEN [rs[i] EXCEPT !.transferred = TRUE]
        ELSE rs[i]]

\* detect_transfers_in_rides comparing the last ride with the first
detect_transfers_in_rides_wrap(rs) ==
    [i \in 1..Len(rs) |->
        IF similar_station_names(rs[i].departing_stop,
                                 rs[(i % Len(rs)) + 1].boarding_stop)
        THEN [rs[i] EXCEPT !.transferred = TRUE]
        ELSE rs[i]]

\* detect_transfers_in_rides of services/transit_service.py
detect_transfers_in_rides(rs) ==
    [i \in 1..Len(rs) |->
        IF i < Len(rs)
           /\ similar_station_names(rs[i].departing_stop, rs[i + 1].boarding_stop)
        THEN [rs[i] EXCEPT !.transferred = TRUE]
        ELSE rs[i]]

(***************************************************************************)
(* The variants of main.py                                                 *)
(***************************************************************************)
\* normalize_stop_name of main.py
main_normalize_stop_name(stop_name) ==
    Title(Strip(Replace(Replace(stop_name, <<"-">>, <<"-">>),
                        <<" ", " ">>, <<" ">>)))

MainSuffixes ==
    << <<"s", "t", "a", "t", "i", "o", "n">>, <<"s", "t">>, <<"a", "v", "e">>,
       <<"a", "v", "e", "n", "u", "e">>, <<"s", "q">>,
       <<"s", "q", "u", "a", "r", "e">> >>

RECURSIVE MainDropSuffixes(_, _)
MainDropSuffixes(name, suffixes) ==
    IF suffixes = <<>> THEN name
    ELSE MainDropSuffixes(
            Replace(Replace(name, <<" ">> \o suffixes[1], <<>>),
                    suffixes[1] \o <<" ">>, <<>>),
            Tail(suffixes))

MainSimilarKey(name) ==
    MainDropSuffixes(
        Strip(Replace(Replace(Lower(name), <<"-">>, <<" ">>), <<"/">>, <<" ">>)),
        MainSuffixes)

\* similar_station_names of main.py
main_similar_station_names(name1, name2) ==
    LET n1 == MainSimilarKey(name1)
        n2 == MainSimilarKey(name2)
    IN  n1 = n2 \/ Contains(n2, n1) \/ Contains(n1, n2)

\* detect_transfers_in_rides of main.py
main_detect_transfers_in_rides(rs) ==
    [i \in 1..Len(rs) |->
        IF i < Len(rs)
           /\ \/ Lower(rs[i].depart_stop) = Lower(rs[i + 1].board_stop)
              \/ main_similar_station_names(rs[i].depart_stop, rs[i + 1].board_stop)
        THEN [rs[i] EXCEPT !.transferred = TRUE]
        ELSE rs[i]]

\* process_api_routes of main.py: line name of a step, the vehicle filter, and
\* the ride of a step that passes it
MainLineName(st) ==
    IF GetOrEmpty(st.short_name) # <<>> THEN GetOrEmpty(st.short_name)
    ELSE GetOrEmpty(st.name)

MainStepIsSubway(st) ==
    /\ st.travel_mode = "TRANSIT"
    /\ \/ st.vehicle \in {"SUBWAY", "METRO_RAIL"}
       \/ Contains(Lower(MainLineName(st)), SUBWAY_WORD)

MainStepQualifies(st) ==
    /\ MainStepIsSubway(st)
    /\ main_normalize_stop_name(GetOrEmpty(st.departure)) # <<>>
    /\ main_normalize_stop_name(GetOrEmpty(st.arrival)) # <<>>
    /\ MainLineName(st) # <<>>

\* confidence=95, "High confidence from API data"
ApiConfidence == 95

RECURSIVE MainRidesOfSteps(_)
MainRidesOfSteps(steps) ==
    IF steps = <<>> THEN <<>>
    ELSE (IF MainStepQualifies(steps[1])
          THEN <<MainParsedRide(Upper(MainLineName(steps[1])),
                                main_normalize_stop_name(GetOrEmpty(steps[1].departure)),
                                main_normalize_stop_name(GetOrEmpty(steps[1].arrival)),
                                FALSE, ApiConfidence)>>
          ELSE <<>>)
         \o MainRidesOfSteps(Tail(steps))

\* the routes main.py's process_api_routes reads
MainRoutesRead(rts) == rts

\* the rides main.py's process_api_routes has built when its loops end
MainBuiltRides(rts) == MainRidesOfSteps(StepsOfRoutes(MainRoutesRead(rts)))

\* process_api_routes of main.py: the rides built, after its own
\* "Post-process to detect transfers"
main_process_api_routes(rts) == main_detect_transfers_in_rides(MainBuiltRides(rts))

(***************************************************************************)
(* Input steps of provider responses                                       *)
(***************************************************************************)
\* a walking step
StepWalk == Step("WALKING", FALSE, FALSE, Absent, Absent, "", Absent, Absent)

\* line 6 (short name), "U Sq-14 St" to "G C-42 St", subway
Step6 ==
    Step("TRANSIT", TRUE, TRUE, Present(<<"6">>), Present(<<"L", "e", "x">>), "SUBWAY",
         Present(<<"U", " ", "S", "q", "-", "1", "4", " ", "S", "t">>),
         Present(<<"G", " ", "C", "-", "4", "2", " ", "S", "t">>))

\* line "n" (name only), "G C-42 St" to "Canal  St", subway
StepN ==
    Step("TRANSIT", TRUE, TRUE, Absent, Present(<<"n">>), "SUBWAY",
         Present(<<"G", " ", "C", "-", "4", "2", " ", "S", "t">>),
         Present(<<"C", "a", "n", "a", "l", " ", " ", "S", "t">>))

\* a bus: line M1, "Canal St" to "x"
StepBus ==
    Step("TRANSIT", TRUE, TRUE, Present(<<"M", "1">>), Absent, "BUS",
         Present(<<"C", "a", "n", "a", "l", " ", "S", "t">>), Present(<<"x">>))

\* a transit step whose departure stop has no name
StepNoDeparture ==
    Step("TRANSIT", TRUE, TRUE, Present(<<"7">>), Absent, "SUBWAY",
         Absent, Present(<<"x">>))

\* a step marked TRANSIT that carries no transit details
StepNoDetails == Step("TRANSIT", FALSE, FALSE, Absent, Absent, "", Absent, Absent)

\* a transit step whose stops have empty names: line 7, "" to ""
StepBlank ==
    Step("TRANSIT", TRUE, TRUE, Present(<<"7">>), Absent, "SUBWAY",
         Present(<<>>), Present(<<>>))

StepSet ==
    {StepWalk, Step6, StepN, StepBus, StepNoDeparture, StepNoDetails, StepBlank}

\* bounds of the provider responses the model builds
MaxRoutes == 2

MaxLegs == 2

MaxSteps == 2

Leg(steps) == [steps |-> steps]

Route(legs) == [legs |-> legs]

\* number of steps in a response
CountSteps(rts) == Len(StepsOfRoutes(rts))

\* number of legs in a response
RECURSIVE CountLegs(_)
CountLegs(rts) ==
    IF rts = <<>> THEN 0 ELSE Len(rts[1].legs) + CountLegs(Tail(rts))

VARIABLES
    pc,            \* control point of the request
    url,           \* the URL of the request (the argument url)
    resolved,      \* the (origin, destination) pair last produced
    routes,        \* data["routes"] of the provider's last response
    built,         \* the rides an extractor has built, before transfer detection
    rides,         \* the rides returned
    raised,        \* the extractor raised
    expanded,      \* expanded_url of the running activation
    stack,         \* the activations of the two pipeline coroutines, oldest first
    base,          \* interpreter frames in use below the pipeline
    ret,           \* what the activation that just ended handed to its caller
    response,      \* the answer of parse_url
    expandCalls,   \* HTTP requests of expand_shortened_url in this request
    providerCalls, \* HTTP requests to the directions provider in this request
    lastStatus,    \* where the provider was last called and what it answered
    scraping,      \* extract_transit_info_async was started
    expandFailed,  \* the last HTTP request of expand_shortened_url failed
    overflowed,    \* RecursionError was raised in this request
    name1,         \* the first stop name given to similar_station_names
    name2,         \* the second stop name given to similar_station_names
    judged,        \* what the two variants of similar_station_names returned
    extracted_name,\* the raw name given to find_matching_stations
    all_stations,  \* the candidate stations, in registry order
    scored,        \* matches of find_matching_stations before the sort
    matches,       \* what find_matching_stations returned
    stops_file,    \* what data/stops.json holds
    requests,      \* the registry requests in flight, each with its locals
    table,         \* the rows of the table rides
    sessions,      \* the database requests in flight, each with its locals
    nextId         \* the next value of the primary key id

resolveVars == <<url, resolved>>

extractVars == <<routes, built, rides, raised>>

pipeVars ==
    <<expanded, stack, base, ret, response, expandCalls, providerCalls,
      lastStatus, scraping, expandFailed, overflowed>>

nameVars == <<name1, name2, judged, extracted_name, all_stations, scored, matches>>

registryVars == <<stops_file, requests>>

dbVars == <<table, sessions, nextId>>

vars == <<pc, resolveVars, extractVars, pipeVars, nameVars, registryVars, dbVars>>

NoStatus == [site |-> "none", status |-> "none"]

\* the state of the name functions before any call
NamesIdle ==
    /\ name1 = <<>>
    /\ name2 = <<>>
    /\ judged = "none"
    /\ extracted_name = <<>>
    /\ all_stations = <<>>
    /\ scored = <<>>
    /\ matches = <<>>

\* no registry request and no database request is in flight
OthersIdle ==
    /\ stops_file = [state |-> "absent", data |-> <<>>]
    /\ requests = <<>>
    /\ table = {}
    /\ sessions = <<>>
    /\ nextId = 1

\* the state of the pipeline when no request is running
PipeIdle ==
    /\ expanded = NoUrl
    /\ stack = <<>>
    /\ base = 0
    /\ ret = "none"
    /\ response = "none"
    /\ expandCalls = 0
    /\ providerCalls = 0
    /\ lastStatus = NoStatus
    /\ scraping = FALSE
    /\ expandFailed = FALSE
    /\ overflowed = FALSE

(***************************************************************************)
(* URL resolution on its own: each resolver applied to each input URL.     *)
(***************************************************************************)
ResolveInit ==
    /\ pc = "r_idle"
    /\ url = NoUrl
    /\ resolved = NonePair
    /\ routes = <<>>
    /\ built = <<>>
    /\ rides = <<>>
    /\ raised = FALSE
    /\ PipeIdle
    /\ OthersIdle
    /\ NamesIdle

ApplyParseGoogleMapsUrl ==
    /\ pc = "r_idle"
    /\ \E u \in LongUrls :
          /\ url' = u
          /\ resolved' = parse_google_maps_url(u)
    /\ pc' = "r_parsed"
    /\ UNCHANGED <<registryVars, dbVars, nameVars, extractVars, pipeVars>>

ApplyExtractOriginDestination ==
    /\ pc = "r_idle"
    /\ \E u \in LongUrls :
          /\ url' = u
          /\ resolved' = extract_origin_destination(u).pair
          /\ pc' = IF extract_origin_destination(u).ok THEN "r_extracted" ELSE "r_raised"
    /\ UNCHANGED <<registryVars, dbVars, nameVars, extractVars, pipeVars>>

ResolveReset ==
    /\ pc \in {"r_parsed", "r_extracted", "r_raised"}
    /\ pc' = "r_idle"
    /\ url' = NoUrl
    /\ resolved' = NonePair
    /\ UNCHANGED <<registryVars, dbVars, nameVars, extractVars, pipeVars>>

ResolveNext ==
    \/ ApplyParseGoogleMapsUrl
    \/ ApplyExtractOriginDestination
    \/ ResolveReset

SpecResolve == ResolveInit /\ [][ResolveNext]_vars

(***************************************************************************)
(* Route extraction on its own: a provider response is built route by      *)
(* route, leg by leg, step by step, and each extractor is applied to it.   *)
(***************************************************************************)
ExtractInit ==
    /\ pc = "x_build"
    /\ url = NoUrl
    /\ resolved = NonePair
    /\ routes = <<>>
    /\ built = <<>>
    /\ rides = <<>>
    /\ raised = FALSE
    /\ PipeIdle
    /\ OthersIdle
    /\ NamesIdle

AddRoute ==
    /\ pc = "x_build"
    /\ Len(routes) < MaxRoutes
    /\ routes' = Append(routes, Route(<<>>))
    /\ UNCHANGED <<registryVars, dbVars, nameVars, pc, resolveVars, built, rides, raised, pipeVars>>

AddLeg ==
    /\ pc = "x_build"
    /\ routes # <<>>
    /\ CountLegs(routes) < MaxLegs
    /\ routes' = [routes EXCEPT ![Len(routes)].legs = Append(@, Leg(<<>>))]
    /\ UNCHANGED <<registryVars, dbVars, nameVars, pc, resolveVars, built, rides, raised, pipeVars>>

AddStep ==
    /\ pc = "x_build"
    /\ routes # <<>>
    /\ routes[Len(routes)].legs # <<>>
    /\ CountSteps(routes) < MaxSteps
    /\ \E st \in StepSet :
          routes' = [routes EXCEPT
                        ![Len(routes)].legs[Len(routes[Len(routes)].legs)].steps =
                            Append(@, st)]
    /\ UNCHANGED <<registryVars, dbVars, nameVars, pc, resolveVars, built, rides, raised, pipeVars>>

\* get_transit_rides_from_api on an OK response, then steps 4 and 5 of
\* extract_transit_info_with_new_api
ExtractPrimary ==
    /\ pc = "x_build"
    /\ LET r == get_transit_rides_from_api(routes)
       IN  /\ raised' = r.raised
           /\ built' = ConvertApiRides(r.rides)
           /\ rides' = detect_transfers_in_rides(ConvertApiRides(r.rides))
    /\ pc' = "x_primary"
    /\ UNCHANGED <<registryVars, dbVars, nameVars, resolveVars, routes, pipeVars>>

\* process_api_routes of services/transit_service.py, then
\* detect_transfers_in_rides, as extract_transit_info_with_api calls them
ExtractFallback ==
    /\ pc = "x_build"
    /\ raised' = FALSE
    /\ built' = process_api_routes(routes)
    /\ rides' = detect_transfers_in_rides(process_api_routes(routes))
    /\ pc' = "x_fallback"
    /\ UNCHANGED <<registryVars, dbVars, nameVars, resolveVars, routes, pipeVars>>

\* process_api_routes of main.py
ExtractMain ==
    /\ pc = "x_build"
    /\ raised' = FALSE
    /\ built' = MainBuiltRides(routes)
    /\ rides' = main_process_api_routes(routes)
    /\ pc' = "x_main"
    /\ UNCHANGED <<registryVars, dbVars, nameVars, resolveVars, routes, pipeVars>>

ExtractNext ==
    \/ AddRoute
    \/ AddLeg
    \/ AddStep
    \/ ExtractPrimary
    \/ ExtractFallback
    \/ ExtractMain

SpecExtract == ExtractInit /\ [][ExtractNext]_vars

(***************************************************************************)
(* The parse request: parse_url awaits extract_transit_info_with_api,      *)
(* which awaits extract_transit_info_with_new_api, whose handler awaits    *)
(* extract_transit_info_with_api again.                                    *)
(***************************************************************************)
\* the interpreter's recursion limit, in frames
RecursionLimit == 6

\* frames the caller of parse_url may already hold
MaxBase == 1

\* a link of the shortener: 'goo.gl' in url
ShortUrl == Url(TRUE, << <<>>, <<"a", "b", "c">> >>, <<>>, <<>>)

\* the long URLs of the requests: /m/dir/T+S/U%20S/, /m?saddr=..&daddr=..,
\* /m, /m?data=1,2!3%2C4#x
PipelineLongUrls ==
    { u \in LongUrls :
        \/ /\ Len(u.parts) = 6
           /\ u.query = <<>>
           /\ u.fragment = <<>>
        \/ /\ Len(u.parts) = 2
           /\ u.fragment = <<>>
           /\ \/ u.query = <<>>
              \/ /\ Len(u.query) = 2
                 /\ u.query[1].k = "saddr"
                 /\ u.query[2].k = "daddr"
                 /\ u.query[1].v # <<>>
        \/ /\ Len(u.parts) = 2
           /\ u.fragment = <<"x">>
           /\ Len(u.query) = 1
           /\ Len(u.query[1].v) > 3 }

\* a URL with /dir/ in its path that holds 'goo.gl' as well
ShortDirUrl ==
    Url(TRUE, << <<>>, <<"m">>, DIR, <<"T", "+", "S">>, <<"U", "%", "2", "0", "S">>, <<>> >>,
        <<>>, <<>>)

PipelineUrls == PipelineLongUrls \cup {ShortUrl, ShortDirUrl}

\* where a link of the shortener redirects to
ExpansionTargets == { u \in PipelineLongUrls : u.fragment = <<>> /\ u.query = <<>> }

\* data["status"] of the provider
ProviderStatuses == {"OK", "ZERO_RESULTS", "REQUEST_DENIED", "OVER_QUERY_LIMIT"}

NETWORK_ERROR == "NETWORK_ERROR"

\* data["routes"] of the provider
PipelineRoutes ==
    { <<>>,
      << Route(<< Leg(<<StepWalk>>) >>) >>,
      << Route(<< Leg(<<StepWalk, Step6>>), Leg(<<StepN>>) >>) >>,
      << Route(<< Leg(<<Step6>>) >>), Route(<< Leg(<<StepBus>>) >>) >>,
      << Route(<< Leg(<<StepNoDeparture>>) >>) >> }

\* what extract_coordinates_from_browser returns
BrowserCoordinates ==
    { NonePair,
      Pair(TupleV(<<"4", ".", "5">>, <<"-", "7", ".", "0">>),
           TupleV(<<"4", ".", "0">>, <<"-", "7", ".", "2", "5">>)) }

\* what extract_transit_info_async returns
ScrapedResults ==
    { <<>>,
      << ParsedRide(<<"6">>, <<"U", " ", "S", "q">>, <<"G", " ", "C">>, FALSE) >> }

Frame(fn, at) == [fn |-> fn, at |-> at]

Top == stack[Len(stack)]

AtTop(fn, at) == stack # <<>> /\ Top = Frame(fn, at) /\ ret = "none"

SetTop(at) == [stack EXCEPT ![Len(stack)].at = at]

Pop == SubSeq(stack, 1, Len(stack) - 1)

\* one more frame fits under the recursion limit
CanCall == base + Len(stack) < RecursionLimit

\* expand_shortened_url giving nothing back when the HTTP request fails
expand_shortened_url_none(u, target) ==
    IF u.short THEN target ELSE u

\* expand_shortened_url: the URL the redirects end at, the URL itself when it
\* is no link of the shortener or when the HTTP request fails (target NoUrl)
expand_shortened_url(u, target) ==
    IF u.short
    THEN IF target = NoUrl THEN u ELSE target
    ELSE u

\* parse_url of controllers/ride_controller.py: the answer for a result
parse_url(result, parsed_rides) ==
    IF result = "exc" THEN "http500"
    ELSE IF parsed_rides = <<>> THEN "no_rides"
    ELSE "rides"

PipeInit ==
    /\ pc = "idle"
    /\ url = NoUrl
    /\ resolved = NonePair
    /\ routes = <<>>
    /\ built = <<>>
    /\ rides = <<>>
    /\ raised = FALSE
    /\ PipeIdle
    /\ OthersIdle
    /\ NamesIdle

\* parse_url: awaits extract_transit_info_with_api(request.url)
ParseUrl ==
    /\ pc = "idle"
    /\ \E u \in PipelineUrls : url' = u
    /\ \E b \in 0..MaxBase : base' = b
    /\ stack' = << Frame("api", "try") >>
    /\ pc' = "running"
    /\ UNCHANGED <<registryVars, dbVars, nameVars, resolved, extractVars, expanded, ret, response, expandCalls,
                   providerCalls, lastStatus, scraping, expandFailed, overflowed>>

\* extract_transit_info_with_api, its try: awaits
\* extract_transit_info_with_new_api(url); RecursionError is caught by its handler
ApiTry ==
    /\ AtTop("api", "try")
    /\ IF CanCall
       THEN /\ stack' = Append(stack, Frame("new", "expand"))
            /\ UNCHANGED overflowed
       ELSE /\ stack' = SetTop("fb_expand")
            /\ overflowed' = TRUE
    /\ UNCHANGED <<registryVars, dbVars, nameVars, pc, resolveVars, extractVars, expanded, base, ret, response,
                   expandCalls, providerCalls, lastStatus, scraping, expandFailed>>

\* what one HTTP request to the provider gives: a network failure, a status
\* other than OK, or OK with routes
ProviderOutcomes ==
    {[status |-> NETWORK_ERROR, routes |-> <<>>]}
    \cup {[status |-> st, routes |-> <<>>] : st \in ProviderStatuses \ {"OK"}}
    \cup {[status |-> "OK", routes |-> r] : r \in PipelineRoutes}

\* get_transit_rides_from_api raising on a status other than OK
ApiRidesOfResponseRaising(o) ==
    IF o.status # "OK"
    THEN [raised |-> TRUE, rides |-> <<>>]
    ELSE get_transit_rides_from_api(o.routes)

\* get_transit_rides_from_api on a response: [] when the status is not OK
ApiRidesOfResponse(o) ==
    IF o.status # "OK"
    THEN [raised |-> FALSE, rides |-> <<>>]
    ELSE get_transit_rides_from_api(o.routes)

\* extract_transit_info_with_new_api, step 1: expand_shortened_url(url)
NewExpand ==
    /\ AtTop("new", "expand")
    /\ IF CanCall
       THEN /\ \E t \in (IF url.short THEN ExpansionTargets \cup {NoUrl} ELSE {NoUrl}) :
                  /\ expanded' = expand_shortened_url(url, t)
                  /\ expandFailed' = (url.short /\ t = NoUrl)
            /\ expandCalls' = IF url.short THEN expandCalls + 1 ELSE expandCalls
            /\ stack' = SetTop("resolve")
            /\ UNCHANGED overflowed
       ELSE /\ stack' = SetTop("except")
            /\ overflowed' = TRUE
            /\ UNCHANGED <<expanded, expandFailed, expandCalls>>
    /\ UNCHANGED <<registryVars, dbVars, nameVars, pc, resolveVars, extractVars, base, ret, response,
                   providerCalls, lastStatus, scraping>>

\* extract_transit_info_with_new_api, step 2:
\* extract_origin_destination(expanded_url), ValueError goes to the handler
NewResolve ==
    /\ AtTop("new", "resolve")
    /\ LET r == extract_origin_destination(expanded)
       IN  IF r.ok
           THEN /\ resolved' = r.pair
                /\ stack' = SetTop("provider")
           ELSE /\ stack' = SetTop("except")
                /\ UNCHANGED resolved
    /\ UNCHANGED <<registryVars, dbVars, nameVars, pc, url, extractVars, expanded, base, ret, response, expandCalls,
                   providerCalls, lastStatus, scraping, expandFailed, overflowed>>

\* extract_transit_info_with_new_api, steps 3 to 5: get_transit_rides_from_api,
\* the ParsedRide of each ride, detect_transfers_in_rides, return
NewProvider ==
    /\ AtTop("new", "provider")
    /\ \E o \in ProviderOutcomes :
          LET r == ApiRidesOfResponse(o)
          IN  /\ providerCalls' = providerCalls + 1
              /\ lastStatus' = [site |-> "primary", status |-> o.status]
              /\ routes' = o.routes
              /\ IF o.status = NETWORK_ERROR \/ r.raised
                 THEN /\ stack' = SetTop("except")
                      /\ raised' = r.raised
                      /\ UNCHANGED <<built, rides, ret>>
                 ELSE /\ built' = ConvertApiRides(r.rides)
                      /\ rides' = detect_transfers_in_rides(ConvertApiRides(r.rides))
                      /\ raised' = FALSE
                      /\ ret' = "value"
                      /\ stack' = Pop
    /\ UNCHANGED <<registryVars, dbVars, nameVars, pc, resolveVars, expanded, base, response, expandCalls,
                   scraping, expandFailed, overflowed>>

\* extract_transit_info_with_new_api, its handler: awaits
\* extract_transit_info_with_api(url); RecursionError leaves the coroutine
NewExcept ==
    /\ AtTop("new", "except")
    /\ IF CanCall
       THEN /\ stack' = Append(stack, Frame("api", "try"))
            /\ UNCHANGED <<ret, overflowed>>
       ELSE /\ stack' = Pop
            /\ ret' = "exc"
            /\ overflowed' = TRUE
    /\ UNCHANGED <<registryVars, dbVars, nameVars, pc, resolveVars, extractVars, expanded, base, response,
                   expandCalls, providerCalls, lastStatus, scraping, expandFailed>>

\* the awaiting caller takes what its callee handed over: a value is returned
\* on, an exception is caught by the try of extract_transit_info_with_api and
\* leaves the handler of extract_transit_info_with_new_api
Unwind ==
    /\ ret # "none"
    /\ stack # <<>>
    /\ IF ret = "exc" /\ Top = Frame("api", "try")
       THEN /\ stack' = SetTop("fb_expand")
            /\ ret' = "none"
       ELSE /\ stack' = Pop
            /\ UNCHANGED ret
    /\ UNCHANGED <<registryVars, dbVars, nameVars, pc, resolveVars, extractVars, expanded, base, response,
                   expandCalls, providerCalls, lastStatus, scraping, expandFailed,
                   overflowed>>

\* parse_url: the answer built from what extract_transit_info_with_api gave
Respond ==
    /\ pc = "running"
    /\ stack = <<>>
    /\ ret # "none"
    /\ response' = parse_url(ret, rides)
    /\ pc' = "done"
    /\ UNCHANGED <<registryVars, dbVars, nameVars, resolveVars, extractVars, expanded, stack, base, ret,
                   expandCalls, providerCalls, lastStatus, scraping, expandFailed,
                   overflowed>>

\* extract_transit_info_with_api, its handler, step 1: expand_shortened_url(url);
\* RecursionError goes to the handler of the inner try
FbExpand ==
    /\ AtTop("api", "fb_expand")
    /\ IF CanCall
       THEN /\ \E t \in (IF url.short THEN ExpansionTargets \cup {NoUrl} ELSE {NoUrl}) :
                  /\ expanded' = expand_shortened_url(url, t)
                  /\ expandFailed' = (url.short /\ t = NoUrl)
            /\ expandCalls' = IF url.short THEN expandCalls + 1 ELSE expandCalls
            /\ stack' = SetTop("fb_parse")
            /\ UNCHANGED overflowed
       ELSE /\ stack' = SetTop("fb_scrape")
            /\ overflowed' = TRUE
            /\ UNCHANGED <<expanded, expandFailed, expandCalls>>
    /\ UNCHANGED <<registryVars, dbVars, nameVars, pc, resolveVars, extractVars, base, ret, response,
                   providerCalls, lastStatus, scraping>>

\* step 2: parse_google_maps_url(expanded_url), and the test
\* "not origin or not destination" of step 3. This handler only runs once the
\* stack has been exhausted; a RecursionError raised inside
\* parse_google_maps_url is caught by its own handler, which returns (None, None)
FbParse ==
    /\ AtTop("api", "fb_parse")
    /\ IF CanCall
       THEN /\ \E p \in {parse_google_maps_url(expanded), NonePair} :
                  /\ resolved' = p
                  /\ stack' = IF ~Truthy(p.o) \/ ~Truthy(p.d)
                              THEN SetTop("fb_browser")
                              ELSE SetTop("fb_provider")
            /\ UNCHANGED overflowed
       ELSE /\ stack' = SetTop("fb_scrape")
            /\ overflowed' = TRUE
            /\ UNCHANGED resolved
    /\ UNCHANGED <<registryVars, dbVars, nameVars, pc, url, extractVars, expanded, base, ret, response, expandCalls,
                   providerCalls, lastStatus, scraping, expandFailed>>

\* step 3: extract_coordinates_from_browser(expanded_url) and "if coordinates:"
FbBrowser ==
    /\ AtTop("api", "fb_browser")
    /\ IF CanCall
       THEN /\ \E c \in BrowserCoordinates :
                  IF TupleTruthy(c)
                  THEN /\ resolved' = c
                       /\ stack' = SetTop("fb_provider")
                  ELSE /\ stack' = SetTop("fb_scrape")
                       /\ UNCHANGED resolved
            /\ UNCHANGED overflowed
       ELSE /\ stack' = SetTop("fb_scrape")
            /\ overflowed' = TRUE
            /\ UNCHANGED resolved
    /\ UNCHANGED <<registryVars, dbVars, nameVars, pc, url, extractVars, expanded, base, ret, response, expandCalls,
                   providerCalls, lastStatus, scraping, expandFailed>>

\* variant for C24: the handler goes on to extract_transit_info_async even when
\* process_api_routes gave rides
FbProviderThenScrape ==
    /\ AtTop("api", "fb_provider")
    /\ IF CanCall
       THEN /\ \E o \in ProviderOutcomes :
                  /\ lastStatus' = [site |-> "fallback", status |-> o.status]
                  /\ routes' = o.routes
                  /\ IF o.status # "OK" \/ o.routes = <<>>
                     THEN UNCHANGED <<built, rides>>
                     ELSE /\ built' = process_api_routes(o.routes)
                          /\ rides' = detect_transfers_in_rides(process_api_routes(o.routes))
            /\ stack' = SetTop("fb_scrape")
            /\ providerCalls' = providerCalls + 1
            /\ UNCHANGED <<overflowed, ret>>
       ELSE /\ stack' = SetTop("fb_scrape")
            /\ overflowed' = TRUE
            /\ UNCHANGED <<lastStatus, routes, built, rides, ret, providerCalls>>
    /\ UNCHANGED <<registryVars, dbVars, nameVars, pc, resolveVars, raised, expanded, base, response, expandCalls,
                   scraping, expandFailed>>

\* step 4 and after: the request to the provider, the tests of the status and
\* of the routes, process_api_routes and detect_transfers_in_rides
FbProvider ==
    /\ AtTop("api", "fb_provider")
    /\ IF CanCall
       THEN /\ \E o \in ProviderOutcomes :
                  /\ lastStatus' = [site |-> "fallback", status |-> o.status]
                  /\ routes' = o.routes
                  /\ IF o.status # "OK" \/ o.routes = <<>>
                     THEN /\ stack' = SetTop("fb_scrape")
                          /\ UNCHANGED <<built, rides, ret>>
                     ELSE /\ built' = process_api_routes(o.routes)
                          /\ rides' = detect_transfers_in_rides(process_api_routes(o.routes))
                          /\ ret' = "value"
                          /\ stack' = Pop
            /\ providerCalls' = providerCalls + 1
            /\ UNCHANGED overflowed
       ELSE /\ stack' = SetTop("fb_scrape")
            /\ overflowed' = TRUE
            /\ UNCHANGED <<lastStatus, routes, built, rides, ret, providerCalls>>
    /\ UNCHANGED <<registryVars, dbVars, nameVars, pc, resolveVars, raised, expanded, base, response, expandCalls,
                   scraping, expandFailed>>

\* extract_transit_info_async: the rides scraped with the browser, [] on any
\* error inside; RecursionError at the call leaves the coroutine
FbScrape ==
    /\ AtTop("api", "fb_scrape")
    /\ IF CanCall
       THEN /\ scraping' = TRUE
            /\ \E rs \in ScrapedResults : rides' = rs
            /\ ret' = "value"
            /\ UNCHANGED overflowed
       ELSE /\ ret' = "exc"
            /\ overflowed' = TRUE
            /\ UNCHANGED <<scraping, rides>>
    /\ stack' = Pop
    /\ UNCHANGED <<registryVars, dbVars, nameVars, pc, resolveVars, routes, built, raised, expanded, base, response,
                   expandCalls, providerCalls, lastStatus, expandFailed>>

Next ==
    \/ ParseUrl
    \/ ApiTry
    \/ NewExpand
    \/ NewResolve
    \/ NewProvider
    \/ NewExcept
    \/ Unwind
    \/ Respond
    \/ FbExpand
    \/ FbParse
    \/ FbBrowser
    \/ FbProvider
    \/ FbScrape

Spec == PipeInit /\ [][Next]_vars

(***************************************************************************)
(* Transfer detection on its own: a list of rides, as the extractors build *)
(* them (transferred is False on every ride), is given to                  *)
(* detect_transfers_in_rides of the service and of main.py.                *)
(***************************************************************************)
MaxRides == 3

\* the rides the lists are made of: (line, boarding stop, departing stop)
DetectRides ==
    { ParsedRide(<<"6">>, <<"C", "a", "n", "a", "l", " ", "S", "t">>,
                 <<"1", "4", " ", "S", "t", "-", "U", "n", "i", "o", "n", " ", "S", "q">>, FALSE),
      ParsedRide(<<"N">>, <<"U", "n", "i", "o", "n", " ", "S", "q">>,
                 <<"T", "i", "m", "e", "s", " ", "S", "q", "-", "4", "2", " ", "S", "t">>, FALSE),
      ParsedRide(<<"7">>,
                 <<"T", "i", "m", "e", "s", " ", "S", "q", "u", "a", "r", "e",
                   " ", "4", "2", " ", "S", "t", "r", "e", "e", "t">>,
                 <<"G", "r", "a", "n", "d", " ", "C", "e", "n", "t", "r", "a", "l">>, FALSE),
      ParsedRide(<<"4">>, <<"G", "R", "A", "N", "D", " ", "C", "E", "N", "T", "R", "A", "L">>,
                 <<>>, FALSE),
      ParsedRide(<<"L">>, <<>>, <<"S", "t">>, FALSE),
      ParsedRide(<<"G">>, <<"A", "v", "e">>, <<"C", "a", "n", "a", "l", " ", "S", "t">>, FALSE) }

\* a ride of the service as main.py's ParsedRide holds it
AsMainRide(r) ==
    MainParsedRide(r.line, r.boarding_stop, r.departing_stop, r.transferred,
                   ApiConfidence)

DetectInit ==
    /\ pc = "d_build"
    /\ url = NoUrl
    /\ resolved = NonePair
    /\ routes = <<>>
    /\ built = <<>>
    /\ rides = <<>>
    /\ raised = FALSE
    /\ PipeIdle
    /\ OthersIdle
    /\ NamesIdle

AddRide ==
    /\ pc = "d_build"
    /\ Len(built) < MaxRides
    /\ \E r \in DetectRides : built' = Append(built, r)
    /\ UNCHANGED <<registryVars, dbVars, nameVars, pc, resolveVars, routes, rides, raised, pipeVars>>

\* detect_transfers_in_rides of services/transit_service.py
ApplyDetectTransfers ==
    /\ pc = "d_build"
    /\ rides' = detect_transfers_in_rides(built)
    /\ pc' = "d_svc"
    /\ UNCHANGED <<registryVars, dbVars, nameVars, resolveVars, routes, built, raised, pipeVars>>

\* detect_transfers_in_rides of main.py
ApplyMainDetectTransfers ==
    /\ pc = "d_build"
    /\ built' = [i \in 1..Len(built) |-> AsMainRide(built[i])]
    /\ rides' = main_detect_transfers_in_rides(
                    [i \in 1..Len(built) |-> AsMainRide(built[i])])
    /\ pc' = "d_main"
    /\ UNCHANGED <<registryVars, dbVars, nameVars, resolveVars, routes, raised, pipeVars>>

\* detect_transfers_in_rides given the list it returned
ApplyDetectTransfersAgain ==
    /\ pc = "d_svc"
    /\ built' = rides
    /\ rides' = detect_transfers_in_rides(rides)
    /\ pc' = "d_again"
    /\ UNCHANGED <<registryVars, dbVars, nameVars, resolveVars, routes, raised, pipeVars>>

DetectNext ==
    \/ AddRide
    \/ ApplyDetectTransfers
    \/ ApplyMainDetectTransfers
    \/ ApplyDetectTransfersAgain

SpecDetect == DetectInit /\ [][DetectNext]_vars

(***************************************************************************)
(* The two variants of similar_station_names on their own, on every pair   *)
(* of a set of stop names: the empty name, a blank name, names that are    *)
(* nothing but a term the normalizer removes, and station names.           *)
(***************************************************************************)
StopNames ==
    { <<>>,
      <<" ">>,
      <<"S", "t">>,
      <<"A", "v", "e">>,
      <<"C", "a", "n">>,
      <<"C", "a", "n", "a", "l", " ", "S", "t">>,
      <<"C", "a", "n", "a", "l", " ", "S", "t", "r", "e", "e", "t">>,
      <<"1", "4", " ", "S", "t", "-", "U", "n", "i", "o", "n", " ", "S", "q">>,
      <<"U", "n", "i", "o", "n", " ", "S", "q">>,
      <<"T", "i", "m", "e", "s", " ", "S", "q", "-", "4", "2", " ", "S", "t">>,
      <<"G", "R", "A", "N", "D", " ", "C", "E", "N", "T", "R", "A", "L">>,
      <<"G", "r", "a", "n", "d", " ", "C", "e", "n", "t", "r", "a", "l">> }

SimilarInit ==
    /\ pc = "s_idle"
    /\ url = NoUrl
    /\ resolved = NonePair
    /\ routes = <<>>
    /\ built = <<>>
    /\ rides = <<>>
    /\ raised = FALSE
    /\ PipeIdle
    /\ OthersIdle
    /\ NamesIdle

\* one call of similar_station_names of the service and one of main.py's
JudgeSimilar ==
    /\ pc = "s_idle"
    /\ \E a \in StopNames, b \in StopNames :
          /\ name1' = a
          /\ name2' = b
          /\ judged' = [svc |-> similar_station_names(a, b),
                        main |-> main_similar_station_names(a, b)]
    /\ pc' = "s_judged"
    /\ UNCHANGED <<registryVars, dbVars, resolveVars, extractVars, pipeVars, extracted_name,
                   all_stations, scored, matches>>

SimilarNext == JudgeSimilar

SpecSimilar == SimilarInit /\ [][SimilarNext]_vars

(***************************************************************************)
(* find_matching_stations on its own: a raw name and a list of candidate   *)
(* stations, built station by station.                                     *)
(***************************************************************************)
MaxStations == 4

\* station names as the registry holds them
StationNames ==
    { <<"U", "n", "i", "o", "n", " ", "S", "q", "-", "1", "4", " ", "S",
        "t">>,
      <<"C", "a", "n", "a", "l", " ", "S", "t">>,
      <<"C", "a", "n", "a", "l", " ", "S", "t", "r", "e", "e", "t">> }

\* raw names: every station name, the empty name, a blank name, a name that
\* is nothing but a term the normalizer removes, a fragment of a station
\* name, and names that share words with stations
RawNames ==
    StationNames \cup
    { <<>>,
      <<" ">>,
      <<"S", "t">>,
      <<"C", "a", "n">>,
      <<"1", "4", "t", "h", " ", "S", "t", " ", "U", "n", "i", "o", "n",
        " ", "S", "q">>,
      <<"1", "4", " ", "S", "t", "-", "U", "n", "i", "o", "n", " ", "S",
        "q">>,
      <<"C", "a", "n", "a", "l", " ", "S", "t", "-", "U", "n", "i", "o",
        "n", " ", "S", "q">> }

MatchInit ==
    /\ pc = "m_build"
    /\ url = NoUrl
    /\ resolved = NonePair
    /\ routes = <<>>
    /\ built = <<>>
    /\ rides = <<>>
    /\ raised = FALSE
    /\ PipeIdle
    /\ OthersIdle
    /\ name1 = <<>>
    /\ name2 = <<>>
    /\ judged = "none"
    /\ extracted_name \in RawNames
    /\ all_stations = <<>>
    /\ scored = <<>>
    /\ matches = <<>>

AddStation ==
    /\ pc = "m_build"
    /\ Len(all_stations) < MaxStations
    /\ \E station \in StationNames : all_stations' = Append(all_stations, station)
    /\ UNCHANGED <<registryVars, dbVars, pc, resolveVars, extractVars, pipeVars, name1, name2, judged,
                   extracted_name, scored, matches>>

\* find_matching_stations(extracted_name, all_stations)
ApplyFindMatchingStations ==
    /\ pc = "m_build"
    /\ scored' = MatchesBeforeSort(extracted_name, all_stations)
    /\ matches' = SortedTopThree(scored')
    /\ pc' = "m_done"
    /\ UNCHANGED <<registryVars, dbVars, resolveVars, extractVars, pipeVars, name1, name2, judged,
                   extracted_name, all_stations>>

MatchNext ==
    \/ AddStation
    \/ ApplyFindMatchingStations

SpecMatch == MatchInit /\ [][MatchNext]_vars

(***************************************************************************)
(* clean_station_name on its own, applied once and then again to its own   *)
(* result, on names made of two tokens joined by a space or a hyphen.      *)
(***************************************************************************)
NormalizeTokens ==
    { <<"N", "e", "w">>,
      <<"Y", "o", "r", "k">>,
      <<"C", "a", "n", "a", "l">>,
      <<"S", "t">>,
      <<"2", "0">>,
      <<"W", " ", "3", "4", "t", "h">>,
      <<"B", "r", "o", "n", "x">> }

NormalizeSeparators == { <<" ">>, <<"-">> }

NormalizeInputs ==
    { a \o sep \o b : a \in NormalizeTokens, sep \in NormalizeSeparators,
                      b \in NormalizeTokens }

NormalizeInit ==
    /\ pc = "n_idle"
    /\ url = NoUrl
    /\ resolved = NonePair
    /\ routes = <<>>
    /\ built = <<>>
    /\ rides = <<>>
    /\ raised = FALSE
    /\ PipeIdle
    /\ OthersIdle
    /\ NamesIdle

\* clean_station_name(name): name1 is the argument, name2 the result
Normalize ==
    /\ pc = "n_idle"
    /\ \E name \in NormalizeInputs :
          /\ name1' = name
          /\ name2' = clean_station_name(name)
    /\ pc' = "n_once"
    /\ UNCHANGED <<registryVars, dbVars, resolveVars, extractVars, pipeVars, judged, extracted_name,
                   all_stations, scored, matches>>

\* clean_station_name applied to the result of the call before
Renormalize ==
    /\ pc = "n_once"
    /\ name1' = name2
    /\ name2' = clean_station_name(name2)
    /\ pc' = "n_twice"
    /\ UNCHANGED <<registryVars, dbVars, resolveVars, extractVars, pipeVars, judged, extracted_name,
                   all_stations, scored, matches>>

NormalizeNext ==
    \/ Normalize
    \/ Renormalize

SpecNormalize == NormalizeInit /\ [][NormalizeNext]_vars

(***************************************************************************)
(* The station registry and its two readers: suggest_stations and          *)
(* process_extracted_data each load data/stops.json, flatten it into the   *)
(* candidate list and give a name to find_matching_stations.  Requests     *)
(* run concurrently; each keeps its own locals.                            *)
(***************************************************************************)
MaxRequests == 2

UnionSq14St == <<"U", "n", "i", "o", "n", " ", "S", "q", "-", "1", "4", " ", "S", "t">>

CanalSt == <<"C", "a", "n", "a", "l", " ", "S", "t">>

\* a registry as json.load gives it: the lines in the order of the file, each
\* with its stations
StopsRegistry ==
    << [line |-> <<"6">>, stations |-> <<UnionSq14St, CanalSt>>],
       [line |-> <<"N">>, stations |-> <<CanalSt>>] >>

\* what data/stops.json can be: no file, a file that cannot be opened, a file
\* that is no JSON, a file holding a registry
StopsFiles ==
    { [state |-> "absent", data |-> <<>>],
      [state |-> "unreadable", data |-> <<>>],
      [state |-> "malformed", data |-> <<>>],
      [state |-> "valid", data |-> <<>>],
      [state |-> "valid", data |-> StopsRegistry] }

\* the names the requests ask about
RequestNames ==
    { CanalSt,
      <<"1", "4", "t", "h", " ", "S", "t", " ", "U", "n", "i", "o", "n", " ", "S", "q">> }

\* load_subway_stations: {} when open raises FileNotFoundError; every other
\* exception of open and of json.load leaves the function
load_subway_stations(file) ==
    IF file.state = "valid" THEN [raised |-> FALSE, data |-> file.data]
    ELSE IF file.state = "absent" THEN [raised |-> FALSE, data |-> <<>>]
    ELSE [raised |-> TRUE, data |-> <<>>]

\* all_stations.extend(line_stations) for every line of the registry
RECURSIVE FlattenRegistry(_)
FlattenRegistry(data) ==
    IF data = <<>> THEN <<>>
    ELSE data[1].stations \o FlattenRegistry(Tail(data))

\* the lines whose station list holds the station, in the order of the file
LinesOfStation(data, station) ==
    LET holding == SelectSeq(data, LAMBDA e :
                       \E i \in 1..Len(e.stations) : e.stations[i] = station)
    IN  [i \in 1..Len(holding) |-> holding[i].line]

\* suggest_stations: the suggestions of the response
Suggestions(data, found) ==
    [i \in 1..Len(found) |->
        [station_name |-> found[i].station,
         confidence |-> found[i].confidence,
         lines |-> LinesOfStation(data, found[i].station)]]

HighConfidence == 60

\* process_extracted_data, the body of its loop for one text a station
\* pattern matched: the rides it appends
RidesOfMatch(data, stations, match) ==
    LET station_matches == find_matching_stations(match, stations)
    IN  IF station_matches = <<>> THEN <<>>
        ELSE LET best_match == station_matches[1]
                 possible_lines == LinesOfStation(data, best_match.station)
             IN  IF best_match.confidence >= HighConfidence /\ possible_lines # <<>>
                 THEN << ParsedRide(possible_lines[1], best_match.station, UNKNOWN, FALSE) >>
                 ELSE <<>>

\* a request as it starts
NewRequest(kind, name) ==
    [kind |-> kind, at |-> "load", extracted_name |-> name,
     all_stations_data |-> <<>>, all_stations |-> <<>>, result |-> <<>>]

RegistryInit ==
    /\ pc = "registry"
    /\ url = NoUrl
    /\ resolved = NonePair
    /\ routes = <<>>
    /\ built = <<>>
    /\ rides = <<>>
    /\ raised = FALSE
    /\ PipeIdle
    /\ NamesIdle
    /\ stops_file \in StopsFiles
    /\ requests = <<>>
    /\ table = {}
    /\ sessions = <<>>
    /\ nextId = 1

\* a request for suggest_stations arrives
SuggestStations ==
    /\ pc = "registry"
    /\ Len(requests) < MaxRequests
    /\ \E name \in RequestNames :
          requests' = Append(requests, NewRequest("suggest", name))
    /\ UNCHANGED <<pc, resolveVars, extractVars, pipeVars, nameVars, stops_file, dbVars>>

\* extract_transit_info_async of a parse request reaches
\* process_extracted_data with one text matched by a station pattern
ProcessExtractedData ==
    /\ pc = "registry"
    /\ Len(requests) < MaxRequests
    /\ \E name \in RequestNames :
          requests' = Append(requests, NewRequest("scrape", name))
    /\ UNCHANGED <<pc, resolveVars, extractVars, pipeVars, nameVars, stops_file, dbVars>>

\* load_subway_stations() of a request. An exception leaves suggest_stations
\* (the request fails); in process_extracted_data it is caught by
\* extract_transit_info_async, which returns []
LoadStations ==
    /\ \E r \in 1..Len(requests) :
          /\ requests[r].at = "load"
          /\ LET loaded == load_subway_stations(stops_file)
             IN  requests' =
                   [requests EXCEPT ![r] =
                      IF loaded.raised
                      THEN [@ EXCEPT !.at = IF requests[r].kind = "suggest"
                                            THEN "error" ELSE "done"]
                      ELSE [@ EXCEPT !.at = "flatten", !.all_stations_data = loaded.data]]
    /\ UNCHANGED <<pc, resolveVars, extractVars, pipeVars, nameVars, stops_file, dbVars>>

\* variant for C26: the candidate list is one list of the module, which every
\* request extends
FlattenIntoShared ==
    /\ \E r \in 1..Len(requests) :
          /\ requests[r].at = "flatten"
          /\ \E before \in {<<>>} \cup {requests[q].all_stations : q \in 1..Len(requests)} :
                requests' = [requests EXCEPT ![r] =
                               [@ EXCEPT !.at = "match",
                                         !.all_stations =
                                             before \o FlattenRegistry(
                                                           requests[r].all_stations_data)]]
    /\ UNCHANGED <<pc, resolveVars, extractVars, pipeVars, nameVars, stops_file, dbVars>>

\* the loop that flattens the registry into the request's own all_stations
FlattenStations ==
    /\ \E r \in 1..Len(requests) :
          /\ requests[r].at = "flatten"
          /\ requests' = [requests EXCEPT ![r] =
                            [@ EXCEPT !.at = "match",
                                      !.all_stations =
                                          FlattenRegistry(requests[r].all_stations_data)]]
    /\ UNCHANGED <<pc, resolveVars, extractVars, pipeVars, nameVars, stops_file, dbVars>>

\* find_matching_stations and what the request builds from its matches
MatchStations ==
    /\ \E r \in 1..Len(requests) :
          /\ requests[r].at = "match"
          /\ LET q == requests[r]
                 built_result ==
                     IF q.kind = "suggest"
                     THEN Suggestions(q.all_stations_data,
                                      find_matching_stations(q.extracted_name, q.all_stations))
                     ELSE RidesOfMatch(q.all_stations_data, q.all_stations, q.extracted_name)
             IN  requests' = [requests EXCEPT ![r] =
                                [@ EXCEPT !.at = "done", !.result = built_result]]
    /\ UNCHANGED <<pc, resolveVars, extractVars, pipeVars, nameVars, stops_file, dbVars>>

RegistryNext ==
    \/ SuggestStations
    \/ ProcessExtractedData
    \/ LoadStations
    \/ FlattenStations
    \/ MatchStations

SpecRegistry == RegistryInit /\ [][RegistryNext]_vars

(***************************************************************************)
(* The table rides and the requests that write it: create_ride and         *)
(* add_test_data read max(ride_number) and insert with the next number,    *)
(* delete_ride deletes a row by id.  Each request has its own session; a   *)
(* query sees what has been committed.                                     *)
(***************************************************************************)
MaxSessions == 3

\* the ids delete_ride is asked to delete
RideIds == 1..2

\* db.query(func.max(SubwayRide.ride_number)).scalar(), and "max_ride or 0"
MaxRideOrZero(rows) ==
    IF rows = {} THEN 0
    ELSE CHOOSE n \in {r.ride_number : r \in rows} :
             \A r \in rows : r.ride_number <= n

\* a row of the table: the primary key and ride_number (the other columns
\* play no part)
SubwayRide(id, ride_number) == [id |-> id, ride_number |-> ride_number]

NewSession(op, ride_id) ==
    [op |-> op, at |-> IF op = "delete" THEN "delete" ELSE "read",
     next_ride_number |-> 0, ride_id |-> ride_id]

RidesInit ==
    /\ pc = "rides"
    /\ url = NoUrl
    /\ resolved = NonePair
    /\ routes = <<>>
    /\ built = <<>>
    /\ rides = <<>>
    /\ raised = FALSE
    /\ PipeIdle
    /\ NamesIdle
    /\ OthersIdle

\* a request for create_ride arrives
CreateRide ==
    /\ pc = "rides"
    /\ Len(sessions) < MaxSessions
    /\ sessions' = Append(sessions, NewSession("create", 0))
    /\ UNCHANGED <<pc, resolveVars, extractVars, pipeVars, nameVars, registryVars,
                   table, nextId>>

\* a request for add_test_data arrives
AddTestData ==
    /\ pc = "rides"
    /\ Len(sessions) < MaxSessions
    /\ sessions' = Append(sessions, NewSession("test", 0))
    /\ UNCHANGED <<pc, resolveVars, extractVars, pipeVars, nameVars, registryVars,
                   table, nextId>>

\* a request for delete_ride arrives
DeleteRide ==
    /\ pc = "rides"
    /\ Len(sessions) < MaxSessions
    /\ \E id \in RideIds : sessions' = Append(sessions, NewSession("delete", id))
    /\ UNCHANGED <<pc, resolveVars, extractVars, pipeVars, nameVars, registryVars,
                   table, nextId>>

\* create_ride and add_test_data: max_ride = db.query(func.max(...)).scalar()
\* and next_ride_number = (max_ride or 0) + 1
ReadMaxRide ==
    /\ \E r \in 1..Len(sessions) :
          /\ sessions[r].at = "read"
          /\ sessions' = [sessions EXCEPT ![r].at = "insert",
                                          ![r].next_ride_number = MaxRideOrZero(table) + 1]
    /\ UNCHANGED <<pc, resolveVars, extractVars, pipeVars, nameVars, registryVars,
                   table, nextId>>

\* db.add of the ride of create_ride, or of the two rides of add_test_data,
\* and db.commit()
InsertRides ==
    /\ \E r \in 1..Len(sessions) :
          /\ sessions[r].at = "insert"
          /\ LET n == sessions[r].next_ride_number
             IN  IF sessions[r].op = "create"
                 THEN /\ table' = table \cup {SubwayRide(nextId, n)}
                      /\ nextId' = nextId + 1
                 ELSE /\ table' = table \cup {SubwayRide(nextId, n),
                                              SubwayRide(nextId + 1, n + 1)}
                      /\ nextId' = nextId + 2
          /\ sessions' = [sessions EXCEPT ![r].at = "done"]
    /\ UNCHANGED <<pc, resolveVars, extractVars, pipeVars, nameVars, registryVars>>

\* delete_ride: the row with the id is deleted, 404 when there is none
DeleteRow ==
    /\ \E r \in 1..Len(sessions) :
          /\ sessions[r].at = "delete"
          /\ IF \E row \in table : row.id = sessions[r].ride_id
             THEN /\ table' = {row \in table : row.id # sessions[r].ride_id}
                  /\ sessions' = [sessions EXCEPT ![r].at = "done"]
             ELSE /\ sessions' = [sessions EXCEPT ![r].at = "not_found"]
                  /\ UNCHANGED table
    /\ UNCHANGED <<pc, resolveVars, extractVars, pipeVars, nameVars, registryVars, nextId>>

RidesNext ==
    \/ CreateRide
    \/ AddTestData
    \/ DeleteRide
    \/ ReadMaxRide
    \/ InsertRides
    \/ DeleteRow

SpecRides == RidesInit /\ [][RidesNext]_vars

(***************************************************************************)
(* Properties                                                              *)
(***************************************************************************)
\* a strategy yields when it gives both tokens
Yields(p) == p.o.kind # "none" /\ p.d.kind # "none"

\* what each strategy of parse_google_maps_url gives, in the order of the code
StrategyOutputs(u) ==
    << PathStrategy(u), SaddrDaddrStrategy(u), OriginDestinationStrategy(u),
       FragmentStrategy(u), DataStrategy(u) >>

AnyYields(u) == \E i \in 1..5 : Yields(StrategyOutputs(u)[i])

FirstYielding(u) ==
    LET outs == StrategyOutputs(u)
    IN  IF AnyYields(u)
        THEN outs[CHOOSE i \in 1..5 :
                     /\ Yields(outs[i])
                     /\ \A j \in 1..(i - 1) : ~Yields(outs[j])]
        ELSE NonePair

XDone == {"x_primary", "x_fallback", "x_main"}

\* the routes the extractor that ran reads
ReadBy(p, rts) ==
    IF p = "x_primary" THEN ApiRoutesRead(rts)
    ELSE IF p = "x_fallback" THEN SvcRoutesRead(rts)
    ELSE MainRoutesRead(rts)

\* the step gives a ride in the extractor that ran
QualifiesFor(p, st) ==
    IF p = "x_primary" THEN st.has_td
    ELSE IF p = "x_fallback" THEN SvcStepQualifies(st)
    ELSE MainStepQualifies(st)

\* what the extractor that ran returns for the routes rts
ExtractorRides(p, rts) ==
    IF p = "x_primary"
    THEN detect_transfers_in_rides(ConvertApiRides(get_transit_rides_from_api(rts).rides))
    ELSE IF p = "x_fallback"
    THEN detect_transfers_in_rides(process_api_routes(rts))
    ELSE main_process_api_routes(rts)

Denied == {"REQUEST_DENIED", "OVER_QUERY_LIMIT"}

\* C1: every parse request completes without the pipeline re-entering its
\* own stages without bound: the nesting of extract_transit_info_with_api and
\* extract_transit_info_with_new_api ends on its own, so the interpreter's
\* recursion limit is never hit (RecursionError is never raised).
C1_NoUnboundedReentry == overflowed = FALSE

\* C2: when no strategy yields a pair for the URL of the request, the request
\* ends as "no rides found" and the provider was never called.
C2_UnresolvableGivesNoRides ==
    (pc = "done" /\ ~url.short /\ ~AnyYields(url))
        => (response = "no_rides" /\ providerCalls = 0)

\* C3: the result of parse_google_maps_url is the output of the first
\* strategy, in the order path, saddr/daddr, origin/destination, fragment,
\* data, that yields both tokens, and (None, None) when none does.
C3_FirstYieldingStrategy ==
    pc = "r_parsed" => resolved = FirstYielding(url)

\* C4 (as stated): after the HTTP expansion of a shortener link has failed, no
\* later stage runs on the original short URL.
C4_NoStageOnShortUrl ==
    ~(expandFailed /\ (AtTop("new", "resolve") \/ AtTop("api", "fb_parse")))

\* C4 (amended): the step in which the HTTP expansion of a shortener link
\* fails raises nothing: it hands the original URL to the resolution stage,
\* which runs next.
C4_ContinuesWithOriginalUrl ==
    [][(expandCalls' # expandCalls /\ expandFailed')
          => /\ expanded' = url
             /\ stack' # <<>>
             /\ stack'[Len(stack')].at \in {"resolve", "fb_parse"}]_vars

C4_Witness ==
    /\ url.short
    /\ expandFailed
    /\ AtTop("new", "provider")
    /\ expanded = url
    /\ resolved = extract_origin_destination(url).pair

\* C5 (as stated): a request whose last provider answer was REQUEST_DENIED or
\* OVER_QUERY_LIMIT ends as a failure, not as a ride list or "no rides found".
C5_ProviderErrorSurfaced ==
    (pc = "done" /\ lastStatus.status \in Denied) => response = "http500"

\* C5 (amended): REQUEST_DENIED or OVER_QUERY_LIMIT is only printed. Answered
\* to get_transit_rides_from_api it becomes an empty ride list, which is
\* returned as the result with no exception and no scraping and is answered
\* as "no rides found"; answered in the handler of
\* extract_transit_info_with_api it starts extract_transit_info_async, and
\* the request never ends as a failure because of it.
C5_NonOkStatusSwallowed ==
    /\ (lastStatus.site = "primary" /\ lastStatus.status \in Denied)
          => /\ ret = "value"
             /\ rides = <<>>
             /\ ~scraping
             /\ response \in {"none", "no_rides"}
    /\ (lastStatus.site = "fallback" /\ lastStatus.status \in Denied)
          => /\ AtTop("api", "fb_scrape") \/ scraping
             /\ response \in {"none", "no_rides", "rides"}

C5_Witness ==
    /\ pc = "done"
    /\ lastStatus = [site |-> "primary", status |-> "REQUEST_DENIED"]
    /\ response = "no_rides"

\* the provider's last answer holds no ride: ZERO_RESULTS, or OK with no
\* route or with no step that has transit details in the route read
NothingFound ==
    \/ lastStatus.status = "ZERO_RESULTS"
    \/ /\ lastStatus.status = "OK"
       /\ \A i \in 1..Len(StepsOfRoutes(ApiRoutesRead(routes))) :
             ~StepsOfRoutes(ApiRoutesRead(routes))[i].has_td

C7_AtMostOneCallEach == providerCalls <= 1 /\ expandCalls <= 1

\* C8: the rides returned equal the rides extracted from routes[0] alone.
C8_FirstRouteOnly ==
    (pc \in XDone /\ routes # <<>>) => rides = ExtractorRides(pc, <<routes[1]>>)

\* the steps of the routes the extractor that ran reads
StepsRead == StepsOfRoutes(ReadBy(pc, routes))

\* C9 (as stated): the extractor builds exactly one ride per step whose
\* travel mode is TRANSIT in the routes it reads.
C9_OnePerTransitStep ==
    pc \in XDone =>
        Len(built) = Cardinality({i \in 1..Len(StepsRead) :
                                     StepsRead[i].travel_mode = "TRANSIT"})

\* C9 (amended): the extractor builds exactly one ride per step that
\* qualifies in it, in the order routes, legs, steps of the routes it reads,
\* with no ride dropped as a duplicate. A step qualifies in
\* get_transit_rides_from_api when it has transit details (the call raises
\* and builds nothing when such a step lacks its line or a stop name), in
\* process_api_routes of services/transit_service.py when its travel mode is
\* TRANSIT and its line name and both stop names are non-empty, and in
\* process_api_routes of main.py when it is moreover a subway step.
C9_OnePerQualifyingStep ==
    pc \in XDone =>
        LET q == SelectSeq(StepsRead, LAMBDA st : QualifiesFor(pc, st))
        IN  /\ raised = (pc = "x_primary" /\ \E k \in 1..Len(q) : ApiStepRaises(q[k]))
            /\ raised => built = <<>>
            /\ ~raised =>
                 /\ Len(built) = Len(q)
                 /\ pc = "x_primary" =>
                      \A k \in 1..Len(q) :
                         /\ built[k].boarding_stop = q[k].departure.s
                         /\ built[k].departing_stop = q[k].arrival.s
                 /\ pc = "x_fallback" =>
                      \A k \in 1..Len(q) :
                         /\ built[k].line = SvcLineName(q[k])
                         /\ built[k].boarding_stop = normalize_stop_name(q[k].departure.s)
                         /\ built[k].departing_stop = normalize_stop_name(q[k].arrival.s)
                 /\ pc = "x_main" =>
                      \A k \in 1..Len(q) :
                         /\ built[k].line = Upper(MainLineName(q[k]))
                         /\ built[k].board_stop = main_normalize_stop_name(q[k].departure.s)
                         /\ built[k].depart_stop = main_normalize_stop_name(q[k].arrival.s)

\* two identical adjacent transit steps have given two rides
C9_Witness ==
    /\ pc = "x_primary"
    /\ Len(StepsRead) = 2
    /\ StepsRead[1] = Step6
    /\ StepsRead[2] = Step6
    /\ Len(built) = 2

\* C10 (as stated): every ride an extractor has built, before transfer
\* detection, has transferred = false and confidence = 95.
C10_BuiltUnflaggedConfidence95 ==
    pc \in XDone =>
        \A i \in 1..Len(built) :
           /\ built[i].transferred = FALSE
           /\ "confidence" \in DOMAIN built[i]
           /\ built[i].confidence = 95

\* C10 (amended): every ride an extractor has built, before transfer
\* detection, has transferred = false; the rides of main.py carry
\* confidence = 95, the rides of services/transit_service.py carry no
\* confidence at all.
C10_BuiltUnflagged ==
    pc \in XDone =>
        \A i \in 1..Len(built) :
           /\ built[i].transferred = FALSE
           /\ IF pc = "x_main"
              THEN built[i].confidence = 95
              ELSE "confidence" \notin DOMAIN built[i]

\* a ride built unflagged that transfer detection then flagged
C10_Witness ==
    /\ pc = "x_fallback"
    /\ Len(built) = 2
    /\ built[1].transferred = FALSE
    /\ rides[1].transferred = TRUE

DDone == {"d_svc", "d_main"}

\* what the detection that ran judges of the stops between ride i and ride i + 1
AdjacentSimilar(i) ==
    IF pc = "d_main"
    THEN main_similar_station_names(built[i].depart_stop, built[i + 1].board_stop)
    ELSE similar_station_names(built[i].departing_stop, built[i + 1].boarding_stop)

C12_LastRideUntouched ==
    pc \in DDone =>
        /\ Len(rides) = Len(built)
        /\ built # <<>> => rides[Len(rides)] = built[Len(built)]
        /\ Len(built) <= 1 => rides = built

\* the last ride ends where the first begins, and is still not flagged
C12_Witness ==
    /\ pc = "d_svc"
    /\ Len(built) >= 2
    /\ similar_station_names(built[Len(built)].departing_stop, built[1].boarding_stop)
    /\ rides[1].transferred
    /\ rides[Len(rides)] = built[Len(built)]

\* similarity as the specification words it: equal normalized forms, or
\* normalized word sets that share a word
NormalizedSimilar(a, b) ==
    \/ clean_station_name(a) = clean_station_name(b)
    \/ WordSet(clean_station_name(a)) \cap WordSet(clean_station_name(b)) # {}

\* C13 as stated: two stop names are judged similar exactly when their
\* normalized forms are equal or their normalized word sets share a word, for
\* every pair, empty names included; the relation is symmetric.
C13_SimilarIffNormalizedOverlap ==
    pc = "s_judged" =>
        /\ judged.svc = NormalizedSimilar(name1, name2)
        /\ judged.main = NormalizedSimilar(name1, name2)
        /\ judged.svc = similar_station_names(name2, name1)
        /\ judged.main = main_similar_station_names(name2, name1)

\* C13 amended: the service judges two names similar exactly when both are
\* non-empty and their normalized forms are equal or share a word; main.py
\* judges by its own keys (lower case, "-" and "/" as spaces, suffixes dropped)
\* being equal or one containing the other; both relations are symmetric.
C13_SimilarIffNonEmptyOverlap ==
    pc = "s_judged" =>
        /\ judged.svc = (/\ name1 # <<>>
                         /\ name2 # <<>>
                         /\ NormalizedSimilar(name1, name2))
        /\ judged.main = (\/ MainSimilarKey(name1) = MainSimilarKey(name2)
                          \/ Contains(MainSimilarKey(name1), MainSimilarKey(name2))
                          \/ Contains(MainSimilarKey(name2), MainSimilarKey(name1)))
        /\ judged.svc = similar_station_names(name2, name1)
        /\ judged.main = main_similar_station_names(name2, name1)

\* two different non-empty names whose normalized forms are both empty
C13_Witness ==
    /\ pc = "s_judged"
    /\ name1 # <<>> /\ name2 # <<>> /\ name1 # name2
    /\ clean_station_name(name1) = <<>>
    /\ clean_station_name(name2) = <<>>
    /\ judged.svc

\* the route read by the primary extractor is two transit steps, each with its
\* line and both stop names, the first arriving where the second departs
TwoStepsSameStop ==
    /\ pc = "x_primary"
    /\ Len(StepsRead) = 2
    /\ \A i \in 1..2 :
          /\ StepsRead[i].travel_mode = "TRANSIT"
          /\ StepsRead[i].has_td
          /\ StepsRead[i].has_line
          /\ StepsRead[i].departure.has
          /\ StepsRead[i].arrival.has
    /\ StepsRead[1].arrival.s = StepsRead[2].departure.s

\* C14 as stated: a route of two consecutive transit steps, the first arriving
\* at the stop name the second departs from, gives two rides after extraction
\* and transfer detection, and the first is flagged as a transfer.
C14_SameStopFlagged ==
    TwoStepsSameStop =>
        /\ ~raised
        /\ Len(rides) = 2
        /\ rides[1].transferred

\* C14 amended: the same, when the shared stop name is not empty.
C14_SameNamedStopFlagged ==
    (TwoStepsSameStop /\ StepsRead[1].arrival.s # <<>>) =>
        /\ ~raised
        /\ Len(rides) = 2
        /\ rides[1].transferred
        /\ ~rides[2].transferred

\* line 6 to "G C-42 St", then line n from "G C-42 St"
C14_Witness ==
    /\ TwoStepsSameStop
    /\ StepsRead = <<Step6, StepN>>
    /\ Len(rides) = 2
    /\ rides[1].transferred

\* the smaller of two numbers
MinOf(a, b) == IF a < b THEN a ELSE b

\* the tier rule as the specification words it, for normalized forms: 100 when
\* equal, otherwise 80 when one contains the other, otherwise
\* floor(overlap / minLen * 60) when overlap > 0 and the value is at least 30;
\* 0 stands for "no tier"
TierOf(nraw, ncand) ==
    LET overlap == Cardinality(WordSet(nraw) \cap WordSet(ncand))
        minLen == MinOf(Cardinality(WordSet(nraw)), Cardinality(WordSet(ncand)))
    IN  IF nraw = ncand THEN 100
        ELSE IF Contains(nraw, ncand) \/ Contains(ncand, nraw) THEN 80
        ELSE IF overlap > 0 /\ (overlap * 60) \div minLen >= 30
        THEN (overlap * 60) \div minLen
        ELSE 0

\* the tier of every candidate, in the order of the candidates
RECURSIVE TiersOf(_, _)
TiersOf(nraw, candidates) ==
    IF candidates = <<>> THEN <<>>
    ELSE <<TierOf(nraw, clean_station_name(candidates[1]))>>
             \o TiersOf(nraw, Tail(candidates))

C16_StableTopThree ==
    pc = "m_done" =>
        /\ Len(matches) = MinOf(3, Len(scored))
        /\ \E p \in [1..Len(matches) -> 1..Len(scored)] :
              /\ \A k \in 1..Len(matches) : matches[k] = scored[p[k]]
              /\ \A k, l \in 1..Len(matches) :
                    k < l =>
                       /\ matches[k].confidence >= matches[l].confidence
                       /\ matches[k].confidence = matches[l].confidence => p[k] < p[l]
              /\ \A j \in 1..Len(scored) :
                    (\A k \in 1..Len(matches) : p[k] # j) =>
                        \A k \in 1..Len(matches) :
                           /\ scored[j].confidence <= matches[k].confidence
                           /\ scored[j].confidence = matches[k].confidence => p[k] < j

\* four scored candidates, not in order, with a tie among those returned
C16_Witness ==
    /\ pc = "m_done"
    /\ Len(scored) = 4
    /\ Len(matches) = 3
    /\ scored[1].confidence < scored[2].confidence
    /\ matches[1].confidence = matches[2].confidence
    /\ matches[3].confidence < matches[1].confidence

\* C17: the matcher returns the empty sequence when the raw name is empty or
\* holds nothing but whitespace.
C17_BlankNameNoMatches ==
    (pc = "m_done" /\ Strip(extracted_name) = <<>>) => matches = <<>>

\* C18: when the raw name is a station of the candidate list, the first entry
\* returned is that station with confidence 100.
C18_SelfMatchFirst ==
    (pc = "m_done" /\ \E i \in 1..Len(all_stations) : all_stations[i] = extracted_name)
        => /\ matches # <<>>
           /\ matches[1] = [station |-> extracted_name, confidence |-> 100]

\* the normalized raw name shares a word with the normalized candidate i
SharesWord(i) ==
    WordSet(clean_station_name(extracted_name))
        \cap WordSet(clean_station_name(all_stations[i])) # {}

\* one of the normalized raw name and the normalized candidate i contains the
\* other (equal forms included)
OneContainsOther(i) ==
    \/ Contains(clean_station_name(extracted_name), clean_station_name(all_stations[i]))
    \/ Contains(clean_station_name(all_stations[i]), clean_station_name(extracted_name))

\* C19 as stated: a raw name whose normalized form shares no word with any
\* normalized candidate gets the empty sequence.
C19_NoSharedWordNoMatches ==
    (pc = "m_done" /\ \A i \in 1..Len(all_stations) : ~SharesWord(i))
        => matches = <<>>

\* C19 amended: a raw name whose normalized form shares no word with any
\* normalized candidate, and neither contains nor is contained in any, gets
\* the empty sequence.
C19_UnrelatedNoMatches ==
    (pc = "m_done"
     /\ \A i \in 1..Len(all_stations) : ~SharesWord(i) /\ ~OneContainsOther(i))
        => matches = <<>>

\* a named call with candidates, none of them related to the raw name
C19_Witness ==
    /\ pc = "m_done"
    /\ extracted_name # <<>>
    /\ Len(all_stations) >= 2
    /\ \A i \in 1..Len(all_stations) : ~SharesWord(i) /\ ~OneContainsOther(i)
    /\ matches = <<>>

\* the call of the scenario: "14th St Union Sq" against "Union Sq-14 St" and
\* "Canal St", in either order
UnionSqScenario ==
    /\ pc = "m_done"
    /\ extracted_name = <<"1", "4", "t", "h", " ", "S", "t", " ", "U", "n", "i", "o", "n", " ", "S", "q">>
    /\ Len(all_stations) = 2
    /\ {all_stations[1], all_stations[2]} =
          { <<"U", "n", "i", "o", "n", " ", "S", "q", "-", "1", "4", " ", "S", "t">>,
            <<"C", "a", "n", "a", "l", " ", "S", "t">> }

\* C20 as stated: the scenario returns "Union Sq-14 St" first with a
\* confidence of at least 60.
C20_UnionSqAtLeast60 ==
    UnionSqScenario =>
        /\ matches # <<>>
        /\ matches[1].station = <<"U", "n", "i", "o", "n", " ", "S", "q", "-", "1", "4", " ", "S", "t">>
        /\ matches[1].confidence >= 60

\* C20 amended: the scenario returns "Union Sq-14 St" alone, with confidence
\* 30 (one shared word of two).
C20_UnionSqAt30 ==
    UnionSqScenario =>
        /\ matches = <<[station |-> <<"U", "n", "i", "o", "n", " ", "S", "q", "-", "1", "4", " ", "S", "t">>,
                        confidence |-> 30]>>
        /\ matches = find_matching_stations(extracted_name, all_stations)

C20_Witness ==
    /\ UnionSqScenario
    /\ Len(matches) = 1
    /\ matches[1].confidence = 30

\* C21: clean_station_name is idempotent: applied to its own result it
\* returns that result, also when replacing punctuation by spaces has made a
\* token the earlier steps remove.
C21_NormalizeIdempotent ==
    pc = "n_twice" => name2 = name1

\* a path segment in plain text: "+" and percent-escapes decoded
PlainText(seg) == unquote(PlusToSpace(seg))

\* the path of the URL has a "dir" segment and two segments after it
HasDirPair(u) ==
    IndexOfDir(u.parts) > 0 /\ IndexOfDir(u.parts) + 2 <= Len(u.parts)

\* C22: for a URL whose path has a /dir/ segment, both resolvers return the
\* segment after it as origin and the next as destination, each decoded to
\* plain text ("Times+Square" as "Times Square").
C22_DirSegmentsPlainText ==
    (pc \in {"r_parsed", "r_extracted"} /\ HasDirPair(url)) =>
        resolved = Pair(StrV(PlainText(url.parts[IndexOfDir(url.parts) + 1])),
                        StrV(PlainText(url.parts[IndexOfDir(url.parts) + 2])))

\* the URL has no "dir" path segment and carries both saddr and daddr
HasSaddrDaddr(u) ==
    /\ IndexOfDir(u.parts) = 0
    /\ HasKey(parse_qs(u.query), "saddr")
    /\ HasKey(parse_qs(u.query), "daddr")

\* C23: a request for a URL without a /dir/ segment that carries saddr and
\* daddr ends with the provider called, and called with exactly the two
\* parameter values as origin and destination.
C23_QueryPairReachesProvider ==
    (pc = "done" /\ ~url.short /\ HasSaddrDaddr(url)) =>
        /\ providerCalls >= 1
        /\ resolved = Pair(StrV(FirstValue(parse_qs(url.query), "saddr")),
                           StrV(FirstValue(parse_qs(url.query), "daddr")))

\* the rides the structured strategy that answered last builds from routes
StructuredRides ==
    IF lastStatus.site = "primary"
    THEN ConvertApiRides(get_transit_rides_from_api(routes).rides)
    ELSE process_api_routes(routes)

\* the rides of the request come from one strategy: from browser scraping,
\* which ran only when no structured strategy gave a ride, or else from the
\* structured strategy that answered last
OneStrategy ==
    /\ scraping => (built = <<>> /\ rides \in ScrapedResults)
    /\ ~scraping => rides = detect_transfers_in_rides(built)
    /\ built # <<>> => (lastStatus.status = "OK" /\ built = StructuredRides)
    /\ lastStatus.site = "fallback" => overflowed

\* C24: in every response all segments come from one extraction strategy,
\* a looser strategy having run only when the stricter ones gave no segment,
\* and every segment carries the confidence of its strategy: 95 for structured
\* provider data, less for scraping.
C24_OneStrategyItsConfidence ==
    /\ OneStrategy
    /\ pc = "done" =>
          \A i \in 1..Len(rides) :
              /\ "confidence" \in DOMAIN rides[i]
              /\ IF scraping
                 THEN rides[i].confidence < ApiConfidence
                 ELSE rides[i].confidence = ApiConfidence

\* C24 amended: the same, the segments carrying no confidence at all.
C24_OneStrategyNoConfidence ==
    /\ OneStrategy
    /\ \A i \in 1..Len(rides) : "confidence" \notin DOMAIN rides[i]

\* a response with scraped rides, after the provider was asked and gave none
C24_Witness ==
    /\ pc = "done"
    /\ response = "rides"
    /\ scraping
    /\ providerCalls >= 1

\* the registry a request works with when data/stops.json holds none
NoRegistry == stops_file.state # "valid" \/ stops_file.data = <<>>

\* C25: loading the registry never fails: whatever data/stops.json is, no
\* request ends in an error, and when the file is absent, unreadable or
\* malformed every request works with the empty registry and returns
\* an empty result.
C25_LoadNeverFails ==
    \A r \in 1..Len(requests) :
        /\ requests[r].at # "error"
        /\ NoRegistry =>
              /\ requests[r].all_stations_data = <<>>
              /\ requests[r].all_stations = <<>>
              /\ requests[r].result = <<>>

\* what a request of this kind for this name returns when it runs alone
ResultAlone(kind, name) ==
    LET loaded == load_subway_stations(stops_file)
        stations == FlattenRegistry(loaded.data)
    IN  IF loaded.raised THEN <<>>
        ELSE IF kind = "suggest"
        THEN Suggestions(loaded.data, find_matching_stations(name, stations))
        ELSE RidesOfMatch(loaded.data, stations, name)

\* C26: concurrent suggest-stations and parse requests are independent: under
\* every interleaving a request ends as it would end alone, with the result
\* it would return alone, and the registry it loaded and the candidate list
\* it derived stay what the file holds, whatever the other requests do.
C26_RequestsIndependent ==
    \A r \in 1..Len(requests) :
        LET q == requests[r]
            loaded == load_subway_stations(stops_file)
        IN  /\ q.at = "error" => (loaded.raised /\ q.kind = "suggest")
            /\ q.at = "done" => q.result = ResultAlone(q.kind, q.extracted_name)
            /\ q.at \in {"flatten", "match"} => q.all_stations_data = loaded.data
            /\ (q.at = "match" \/ (q.at = "done" /\ ~loaded.raised)) =>
                  /\ q.all_stations_data = loaded.data
                  /\ q.all_stations = FlattenRegistry(loaded.data)

\* a request that arrived second has returned its suggestions while the
\* first, a parse request, has loaded and flattened the registry and has not
\* matched yet
C26_Witness ==
    /\ Len(requests) = 2
    /\ requests[1].kind = "scrape"
    /\ requests[1].at = "match"
    /\ requests[1].all_stations # <<>>
    /\ requests[2].kind = "suggest"
    /\ requests[2].at = "done"
    /\ requests[2].result # <<>>

\* the steps of the route get_transit_rides_from_api reads that are no
\* malformed transit steps
WellFormedSteps(rts) ==
    SelectSeq(StepsOfRoutes(ApiRoutesRead(rts)), LAMBDA st : ~ApiStepRaises(st))

\* C27: a transit step that lacks its line or a stop name is skipped where it
\* is met: the extraction does not raise, and the segments of the other
\* transit steps of the route are built all the same.
C27_MalformedStepSkipped ==
    /\ pc \in {"x_primary", "x_fallback"} => ~raised
    /\ pc = "x_primary" =>
          built = ConvertApiRides(ApiRidesOfSteps(WellFormedSteps(routes)))

\* C28: transfer detection returns the rides it was given, as many and in the
\* same order, with line, boarding stop and departing stop as they were; a
\* ride that came flagged stays flagged; and given its own result it returns
\* it unchanged.
C28_DetectionFrame ==
    pc \in {"d_svc", "d_again"} =>
        /\ Len(rides) = Len(built)
        /\ \A i \in 1..Len(rides) :
              /\ rides[i].line = built[i].line
              /\ rides[i].boarding_stop = built[i].boarding_stop
              /\ rides[i].departing_stop = built[i].departing_stop
              /\ built[i].transferred => rides[i].transferred
        /\ pc = "d_again" => rides = built

\* detection was applied to a list that already held a flagged ride followed
\* by an unflagged one
C28_Witness ==
    /\ pc = "d_again"
    /\ Len(built) = 3
    /\ built[1].transferred
    /\ ~built[2].transferred
    /\ rides[1].transferred

\* the token is the empty string
EmptyToken(v) == v.kind = "str" /\ v.s = <<>>

\* C29: whenever one of the two resolvers reports a pair, neither the origin
\* nor the destination is the empty string: a /dir/ path with an empty or
\* missing origin or destination segment is not resolved.
C29_ResolvedTokensNonEmpty ==
    (pc \in {"r_parsed", "r_extracted"} /\ Yields(resolved)) =>
        (~EmptyToken(resolved.o) /\ ~EmptyToken(resolved.d))

\* C30: whatever the interleaving of create_ride, add_test_data and
\* delete_ride requests, no two rows of the table rides have the same
\* ride_number.
C30_DistinctRideNumbers ==
    \A a, b \in table : a.id # b.id => a.ride_number # b.ride_number

====
